---- MODULE Spec2Model ----
(***************************************************************************)
(* Order fulfilment saga of the Linka marketplace backend: the order       *)
(* service (create_order, update_order_status and their background tasks)  *)
(* the inventory service (stock mutations, reserve/release/transfer) and   *)
(* the payment service (wallet payments, transfers, refunds, top-ups), all *)
(* running against one shared data store.  Every `await` on the store is a *)
(* point where other requests and background tasks may run, so every       *)
(* handler is split at its store writes.                                   *)
(*                                                                         *)
(* A single product "p1" is stocked in the warehouses of Warehouses; an    *)
(* inventory row is therefore identified by its warehouse_id.              *)
(***************************************************************************)
EXTENDS Integers, Sequences, FiniteSets, TLC

(***************************************************************************)
(* Bounds of the model.                                                    *)
(***************************************************************************)
MaxOrders == 1      \* orders created in one behaviour
MaxItems  == 2      \* items of one order
MaxQty    == 2      \* largest quantity of an item, reservation or stock change
InitStock == 2      \* quantity of every inventory row at the start
MaxStock  == 3      \* stock additions stop at this quantity
MaxCalls  == 2      \* requests other than create_order in one behaviour of Spec
MaxStatusCalls  == 2    \* status updates in one behaviour of SpecStatus
MaxAllocCalls == 2      \* reserve_stock calls in one behaviour of SpecAllocate
MaxReserveCalls == 3    \* reserve_stock calls in one behaviour of SpecReserve
MaxReleaseCalls == 3    \* reserve, release and cancel calls in one behaviour of SpecRelease
MaxPayCalls == 3    \* payment service requests in one behaviour
MaxAmount   == 2    \* largest amount of a payment, transfer or refund
InitBalance == 2    \* balance of every wallet at the start
MaxTopups   == 3    \* top-up requests in one behaviour of SpecTopup
MaxTransferCalls == 4   \* inventory requests in one behaviour of SpecTransfer
MaxBalanceCalls == 3    \* balance requests in one behaviour of SpecBalance
MaxEvents == 3          \* events delivered in one behaviour of SpecEvents
MaxSockets == 4         \* connections and events in one behaviour of SpecSockets
MaxCatalogCalls == 3    \* status and product updates in one behaviour of SpecCatalog
MaxStockCalls == 3      \* stock and alert requests in one behaviour of SpecStock
MaxDeliveryCalls == 5   \* status, assignment and delivery requests in one behaviour of SpecDelivery

\* Amounts of money are Decimals in the code; the model counts them in
\* ten-thousandths, which holds every price of two decimals and its tax.
Unit == 10000

OrderIds   == 1..MaxOrders
Warehouses == {"w1", "w2"}

(***************************************************************************)
(* Users, by role (UserRole).                                              *)
(***************************************************************************)
Users ==
    { [id |-> "c1", role |-> "customer"], [id |-> "c2", role |-> "customer"],
      [id |-> "r1", role |-> "retailer"], [id |-> "r2", role |-> "retailer"],
      [id |-> "a1", role |-> "admin"],    [id |-> "d1", role |-> "driver"],
      [id |-> "s1", role |-> "support"] }

UserWithId(i) == CHOOSE u \in Users : u.id = i

(***************************************************************************)
(* Order statuses.  TargetStatuses is the pattern of OrderStatusUpdate:    *)
(* "pending" is no legal target of a status update.                        *)
(***************************************************************************)
TargetStatuses ==
    {"confirmed", "processing", "ready_for_pickup", "out_for_delivery",
     "delivered", "cancelled"}

valid_transitions ==
    [pending          |-> {"confirmed", "cancelled"},
     confirmed        |-> {"processing", "cancelled"},
     processing       |-> {"ready_for_pickup", "cancelled"},
     ready_for_pickup |-> {"out_for_delivery"},
     out_for_delivery |-> {"delivered"}]

NoOrder == [status |-> "none", customer_id |-> "none", retailer_id |-> "none",
            stamps |-> {}, payment_status |-> "none", subtotal |-> 0,
            tax_amount |-> 0, shipping_amount |-> 0, total_amount |-> 0]

NoResponse == [op |-> "none", code |-> 0]

(***************************************************************************)
(* Payment service.  The id of a payment, of a refund and of a wallet      *)
(* transaction is the number of the request that inserts the row.          *)
(***************************************************************************)
PaymentIds  == 1..MaxPayCalls
WalletUsers == {"c1", "c2"}

\* user_profiles.kyc_level of the users.
kyc_level == [c1 |-> 1, c2 |-> 1, r1 |-> 2, r2 |-> 1, a1 |-> 2, d1 |-> 0, s1 |-> 0]

NoPayment == [status |-> "none", user_id |-> "none", order_id |-> 0, amount |-> 0,
              payment_method |-> "none"]
NoRefund  == [status |-> "none", original_payment_id |-> 0, user_id |-> "none",
              amount |-> 0]

(***************************************************************************)
(* Delivery service.  An order has at most one delivery, whose id is the   *)
(* order's; the id of a driver row is the id of the driver's user.         *)
(***************************************************************************)
DeliveryIds == OrderIds
DriverIds   == {"d1"}

NoDelivery == [order_id |-> 0, driver_id |-> "none", status |-> "none"]

VARIABLES
    inventory,       \* table inventory: warehouse_id -> [quantity, reserved_quantity]
    reservations,    \* active reservations: reference (order id) -> warehouse_id -> quantity
    orders,          \* table orders: order id -> row (NoOrder: no such row)
    order_items,     \* table order_items: order id -> sequence of item rows
    audit_logs,      \* table audit_logs: ids of the orders with an order.created row
    notifications,   \* table notifications: rows [order_id, status, id]
    calls,           \* the requests being served, each between two of its store calls
    tasks,           \* background tasks scheduled and not yet finished
    task_log,        \* the log lines written by finished background tasks
    rpc_rejected,    \* orders for which reserve_inventory reported no success
    granted,         \* warehouse_id -> total quantity of the reserve calls that succeeded
    response,        \* the last HTTP response sent
    ncalls,          \* requests other than create_order started so far
    wallets,         \* table wallets: user_id -> balance
    payments,        \* table payments: payment id -> row (NoPayment: no such row)
    refunds,         \* table refunds: refund id -> row (NoRefund: no such row)
    wallet_transactions, \* table wallet_transactions: set of rows
    deliveries,      \* table deliveries: delivery id -> row (NoDelivery: no such row)
    drivers,         \* table drivers: driver id -> row
    stock_movements, \* table stock_movements: the rows the stock operations insert
    stock_alerts,    \* table stock_alerts: set of rows
    product_price,   \* table products: product id -> price
    payment_audit,   \* table audit_logs, the rows of the payment service
    created_wallets, \* table wallets, the rows get_wallet_balance inserted
    active_connections, \* ConnectionManager.active_connections: user id -> socket id (0: no entry)
    live_sockets,    \* the websockets accepted and not yet disconnected: rows [id, user_id]
    pushed           \* the messages sent over websockets: <<socket id, notification id>>

vars == <<inventory, reservations, orders, order_items, audit_logs, notifications,
          calls, tasks, task_log, rpc_rejected, granted, response, ncalls,
          wallets, payments, refunds, wallet_transactions, deliveries, drivers,
          stock_movements, stock_alerts, product_price,
          payment_audit, created_wallets, active_connections, live_sockets,
          pushed>>

wsVars == <<active_connections, live_sockets, pushed>>

svcVars == <<product_price, payment_audit, created_wallets, wsVars>>

stockVars == <<stock_movements, stock_alerts>>

delivVars == <<deliveries, drivers>>

payVars == <<wallets, payments, refunds, wallet_transactions>>

invVars   == <<inventory, reservations>>
orderVars == <<orders, order_items, audit_logs>>

available_quantity(w) == inventory[w].quantity - inventory[w].reserved_quantity

Init ==
    /\ inventory = [w \in Warehouses |->
                       [quantity |-> InitStock, reserved_quantity |-> 0]]
    /\ reservations = [o \in OrderIds |-> [w \in Warehouses |-> 0]]
    /\ orders = [o \in OrderIds |-> NoOrder]
    /\ order_items = [o \in OrderIds |-> <<>>]
    /\ audit_logs = {}
    /\ notifications = {}
    /\ calls = {}
    /\ tasks = {}
    /\ task_log = {}
    /\ rpc_rejected = {}
    /\ granted = [w \in Warehouses |-> 0]
    /\ response = NoResponse
    /\ ncalls = 0
    /\ wallets = [u \in WalletUsers |-> InitBalance]
    /\ payments = [p \in PaymentIds |-> NoPayment]
    /\ refunds = [r \in PaymentIds |-> NoRefund]
    /\ wallet_transactions = {}
    /\ stock_movements = {}
    /\ stock_alerts = {}
    /\ product_price = [p \in {"p1", "p2"} |-> 100 * Unit]
    /\ payment_audit = {}
    /\ created_wallets = {}
    /\ active_connections = [u \in {x.id : x \in Users} |-> 0]
    /\ live_sockets = {}
    /\ pushed = {}
    /\ deliveries = [d \in DeliveryIds |-> NoDelivery]
    /\ drivers = [d \in DriverIds |->
                     [user_id |-> d, status |-> "active", is_available |-> TRUE,
                      completed_deliveries |-> 0]]

(***************************************************************************)
(* Responses.                                                              *)
(***************************************************************************)
Respond(op, code, detail) == [op |-> op, code |-> code, detail |-> detail]

(***************************************************************************)
(* Stored procedures of the data store, each one atomic step.  The         *)
(* procedures are not part of the service code; they follow the ledger     *)
(* contract: reserve checks quantity - reserved_quantity >= q and then     *)
(* raises reserved_quantity; release lowers reserved_quantity by what is   *)
(* actively reserved under the reference and is a no-op without an active  *)
(* reservation; transfer moves stock only if the source has it available.  *)
(***************************************************************************)
reserve_accepts(w, q) == available_quantity(w) >= q

reserve_inventory(ref, w, q) ==
    IF reserve_accepts(w, q)
    THEN /\ inventory' = [inventory EXCEPT ![w].reserved_quantity = @ + q]
         /\ reservations' = [reservations EXCEPT ![ref][w] = @ + q]
    ELSE UNCHANGED <<inventory, reservations>>

\* A release that lowers reserved_quantity whether or not the reference has an
\* active reservation.
release_inventory_reservation_unchecked(ref, w) ==
    /\ inventory' = [inventory EXCEPT ![w].reserved_quantity = @ - 1]
    /\ reservations' = [reservations EXCEPT ![ref][w] = 0]

release_inventory_reservation(ref, w) ==
    /\ inventory' = [inventory EXCEPT
                        ![w].reserved_quantity = @ - reservations[ref][w]]
    /\ reservations' = [reservations EXCEPT ![ref][w] = 0]

\* A transfer check on the quantity on hand instead of the available one.
transfer_accepts_on_hand(from, q) == inventory[from].quantity >= q

transfer_accepts(from, q) == available_quantity(from) >= q

transfer_stock_rpc(from, to, q) ==
    IF transfer_accepts(from, q)
    THEN /\ inventory' = [inventory EXCEPT ![from].quantity = @ - q,
                                           ![to].quantity = @ + q]
         /\ UNCHANGED reservations
    ELSE UNCHANGED <<inventory, reservations>>

(***************************************************************************)
(* Inventory service.                                                      *)
(***************************************************************************)
StockOps == {"update_inventory", "adjust_stock", "add_stock"}

\* The quantity changes a stock operation accepts as input: add_stock takes
\* quantity > 0, the other two any integer.
StockChanges(op) ==
    IF op = "add_stock" THEN 1..MaxQty ELSE (0 - MaxQty)..MaxQty

\* update_inventory (new_quantity < 0) and adjust_stock (quantity_after < 0)
\* refuse a change that makes the quantity negative; add_stock checks nothing.
stock_change_refused(op, quantity_after) ==
    op # "add_stock" /\ quantity_after < 0

\* A response of a stock operation, with the request it answers.
StockResponse(n, op, code, detail, w, quantity_before, quantity_after) ==
    [op |-> op, code |-> code, detail |-> detail, id |-> n, warehouse_id |-> w,
     quantity_before |-> quantity_before, quantity_after |-> quantity_after]

\* A stock operation up to its update of the inventory row: it reads the row,
\* computes the new quantity from what it read and checks it.
StockRead(op, w, change) ==
    /\ ncalls' = ncalls + 1
    /\ LET quantity_before == inventory[w].quantity
           quantity_after  == quantity_before + change
       IN  /\ quantity_after <= MaxStock
           /\ IF stock_change_refused(op, quantity_after)
              THEN /\ response' = StockResponse(ncalls + 1, op, 400, "negative stock",
                                                w, quantity_before, quantity_after)
                   /\ UNCHANGED calls
              ELSE /\ calls' = calls \cup
                                  {[op |-> op, pc |-> "update", id |-> ncalls + 1,
                                    warehouse_id |-> w,
                                    quantity_before |-> quantity_before,
                                    quantity_after |-> quantity_after]}
                   /\ UNCHANGED response
    /\ UNCHANGED <<svcVars, stockVars, delivVars, payVars, invVars, orderVars, notifications, tasks,
                   task_log, rpc_rejected, granted>>

\* The background task a stock operation leaves behind: update_inventory
\* schedules _check_stock_alerts with the quantity it wrote; adjust_stock and
\* add_stock schedule nothing.
TasksOfStock(c) ==
    IF c.op = "update_inventory"
    THEN {[kind |-> "alerts", id |-> c.id, warehouse_id |-> c.warehouse_id,
           quantity |-> c.quantity_after, pc |-> "check", alert_type |-> "none"]}
    ELSE {}

\* The update of the row with the quantity computed from the earlier read,
\* the insert of the stock movement with the quantities of that read, and the
\* response.
StockWrite(c) ==
    /\ c \in calls
    /\ c.op \in StockOps
    /\ inventory' = [inventory EXCEPT ![c.warehouse_id].quantity = c.quantity_after]
    /\ stock_movements' = stock_movements \cup
          {[id |-> c.id, warehouse_id |-> c.warehouse_id, movement_type |-> c.op,
            quantity_before |-> c.quantity_before,
            quantity_after |-> c.quantity_after]}
    /\ tasks' = tasks \cup TasksOfStock(c)
    /\ calls' = calls \ {c}
    /\ response' = StockResponse(c.id, c.op, 200, "ok", c.warehouse_id,
                                 c.quantity_before, c.quantity_after)
    /\ UNCHANGED <<svcVars, stock_alerts, delivVars, payVars, reservations, orderVars,
                   notifications, task_log, rpc_rejected, granted, ncalls>>

(***************************************************************************)
(* Stock alerts.  Row w1 has an alert configuration, row w2 has none and   *)
(* is evaluated with the default thresholds.                               *)
(***************************************************************************)
DefaultLowStockThreshold == 10
DefaultMaxStockLevel     == 1000

stock_alert_configs == [w1 |-> [low_stock_threshold |-> 1, max_stock_level |-> 2]]

ConfigOf(w) ==
    IF w \in DOMAIN stock_alert_configs THEN stock_alert_configs[w]
    ELSE [low_stock_threshold |-> DefaultLowStockThreshold,
          max_stock_level |-> DefaultMaxStockLevel]

\* The alert type of a quantity: out_of_stock, else low_stock, else
\* overstock (only with a maximum configured), else none.
alert_type_of(config, quantity) ==
    IF quantity = 0 THEN "out_of_stock"
    ELSE IF quantity <= config.low_stock_threshold THEN "low_stock"
    ELSE IF config.max_stock_level # 0 /\ quantity > config.max_stock_level
    THEN "overstock"
    ELSE "none"

AlertTasks == {t \in tasks : t.kind = "alerts"}

\* _check_stock_alerts up to its insert: the alert type of the quantity the
\* task was given and the lookup of an unacknowledged alert of that type.
AlertTaskCheck(t) ==
    /\ t \in AlertTasks
    /\ t.pc = "check"
    /\ LET alert_type == alert_type_of(ConfigOf(t.warehouse_id), t.quantity)
           existing   == {a \in stock_alerts :
                             /\ a.warehouse_id = t.warehouse_id
                             /\ a.alert_type = alert_type
                             /\ ~a.is_acknowledged}
       IN  tasks' = IF alert_type # "none" /\ existing = {}
                    THEN (tasks \ {t}) \cup
                            {[t EXCEPT !.pc = "insert", !.alert_type = alert_type]}
                    ELSE tasks \ {t}
    /\ UNCHANGED <<svcVars, stockVars, delivVars, payVars, invVars, orderVars, notifications, calls,
                   task_log, rpc_rejected, granted, response, ncalls>>

\* The insert of the alert.
AlertTaskInsert(t) ==
    /\ t \in AlertTasks
    /\ t.pc = "insert"
    /\ stock_alerts' = stock_alerts \cup
          {[id |-> t.id, warehouse_id |-> t.warehouse_id, alert_type |-> t.alert_type,
            current_quantity |-> t.quantity, is_acknowledged |-> FALSE]}
    /\ tasks' = tasks \ {t}
    /\ UNCHANGED <<svcVars, stock_movements, delivVars, payVars, invVars, orderVars, notifications,
                   calls, task_log, rpc_rejected, granted, response, ncalls>>

\* acknowledge_alert: the update of the alert of the id, by any user.
AcknowledgeAlert(alert_id) ==
    /\ ncalls' = ncalls + 1
    /\ stock_alerts' = {IF a.id = alert_id THEN [a EXCEPT !.is_acknowledged = TRUE]
                        ELSE a : a \in stock_alerts}
    /\ response' = [op |-> "acknowledge_alert", code |-> 200, detail |-> "acknowledged",
                    id |-> ncalls + 1, alert_id |-> alert_id]
    /\ UNCHANGED <<svcVars, stock_movements, delivVars, payVars, invVars, orderVars, notifications,
                   calls, tasks, task_log, rpc_rejected, granted>>

\* A response of transfer_stock, with the request it answers.
TransferStockResponse(n, code, detail, from, to, q) ==
    [op |-> "transfer_stock", code |-> code, detail |-> detail, id |-> n,
     from_warehouse |-> from, to_warehouse |-> to, quantity |-> q]

\* transfer_stock: same-warehouse transfers are refused, the rest is the RPC.
TransferStock(from, to, q) ==
    /\ ncalls' = ncalls + 1
    /\ IF from = to
       THEN /\ response' = TransferStockResponse(ncalls + 1, 400, "same warehouse",
                                                 from, to, q)
            /\ UNCHANGED invVars
       ELSE /\ transfer_stock_rpc(from, to, q)
            /\ response' = IF transfer_accepts(from, q)
                           THEN TransferStockResponse(ncalls + 1, 200, "transferred",
                                                      from, to, q)
                           ELSE TransferStockResponse(ncalls + 1, 400, "Transfer failed",
                                                      from, to, q)
    /\ UNCHANGED <<svcVars, stockVars, delivVars, payVars, orderVars, notifications, calls, tasks, task_log,
                   rpc_rejected, granted>>

\* A reserve_stock that does not look at the RPC's result.
reserve_stock_succeeded_unchecked(success) == TRUE

\* reserve_stock reports success exactly when the RPC's result says so.
reserve_stock_succeeded(success) == success

ReserveStock(w, q, o) ==
    /\ ncalls' = ncalls + 1
    /\ reserve_inventory(o, w, q)
    /\ LET ok == reserve_stock_succeeded(reserve_accepts(w, q))
       IN  /\ response' = [op |-> "reserve_stock", code |-> IF ok THEN 200 ELSE 400,
                           detail |-> IF ok THEN "reserved" ELSE "Reservation failed",
                           warehouse_id |-> w, quantity |-> q,
                           available |-> available_quantity(w)]
           /\ granted' = IF ok THEN [granted EXCEPT ![w] = @ + q] ELSE granted
    /\ UNCHANGED <<svcVars, stockVars, delivVars, payVars, orderVars, notifications, calls, tasks, task_log, rpc_rejected>>

\* release_reservation: the reservation of reference o on row w is released;
\* without an active reservation the RPC reports no success.
ReleaseReservation(w, o) ==
    /\ ncalls' = ncalls + 1
    /\ release_inventory_reservation(o, w)
    /\ response' = IF reservations[o][w] > 0
                   THEN Respond("release_reservation", 200, "released")
                   ELSE Respond("release_reservation", 400, "Release failed")
    /\ UNCHANGED <<svcVars, stockVars, delivVars, payVars, orderVars, notifications, calls, tasks, task_log,
                   rpc_rejected, granted>>

(***************************************************************************)
(* Order service: create_order.                                            *)
(***************************************************************************)
RECURSIVE SumOver(_, _)
SumOver(S, f) ==
    IF S = {} THEN 0
    ELSE LET x == CHOOSE y \in S : TRUE IN f[x] + SumOver(S \ {x}, f)

\* sum(inv.get("available_quantity", 0) for inv in inventory) over the rows of
\* the product.
total_available == SumOver(Warehouses, [w \in Warehouses |-> available_quantity(w)])

\* The item lists a request may carry: 1..MaxItems items of quantity 1..MaxQty.
ItemQuantities == UNION {[1..n -> 1..MaxQty] : n \in 1..MaxItems}

FreeOrderIds == {o \in OrderIds : orders[o] = NoOrder}

\* The products table: p1 is active, p2 is not, and any other id is missing.
\* The price of both is 100.00 at the start; product_price holds the price
\* a row has now.
products == [p1 |-> [status |-> "active",   price |-> 100 * Unit],
             p2 |-> [status |-> "inactive", price |-> 100 * Unit]]

ProductIds == {"p1", "p2", "p0"}

\* A product check that finds every product available.
product_unavailable_never(product_id) == FALSE

\* if not product or product.get("status") != "active"
product_unavailable(product_id) ==
    product_id \notin DOMAIN products \/ products[product_id].status # "active"

\* An item total that leaves out the quantity.
item_total_of_one(unit_price, quantity) == unit_price

\* item_total = unit_price * item.quantity
item_total(unit_price, quantity) == unit_price * quantity

\* tax_amount = subtotal * Decimal("0.16"), exact in Decimal arithmetic.
tax_amount(subtotal) == (subtotal * 16) \div 100

\* shipping_amount = Decimal("25.00")
shipping_amount == 25 * Unit

\* float(x) on its way to the store: the amount travels as the shortest
\* decimal text of the double nearest to it, which gives back every decimal of
\* up to FloatDigits significant digits and rounds a longer one to that many.
FloatDigits == 15

RECURSIVE Digits(_)
Digits(x) == IF x < 10 THEN 1 ELSE 1 + Digits(x \div 10)

RECURSIVE Pow10(_)
Pow10(k) == IF k = 0 THEN 1 ELSE 10 * Pow10(k - 1)

as_float(x) ==
    IF Digits(x) <= FloatDigits THEN x
    ELSE LET p == Pow10(Digits(x) - FloatDigits)
         IN  ((x + p \div 2) \div p) * p

\* The price a product row holds, 0 for a product that is not there.
PriceOf(product_id) ==
    IF product_id \in DOMAIN products THEN product_price[product_id] ELSE 0

\* The products of a retailer: both rows belong to r1.
ProductOwner == "r1"

\* The prices a product update asks for.
NewPrices == {50 * Unit, 150 * Unit}

\* What the update of a product row does to the order item rows that name
\* the product, were they to follow the catalog: they take the new price.
order_items_repriced(product_id, price) ==
    [o \in OrderIds |->
        [i \in DOMAIN order_items[o] |->
            IF order_items[o][i].product_id = product_id
            THEN [order_items[o][i] EXCEPT
                     !.unit_price = price,
                     !.total_price = item_total(price, order_items[o][i].quantity)]
            ELSE order_items[o][i]]]

\* The update names the table products alone: the order item rows stay as
\* they were inserted.
order_items_kept(product_id, price) == order_items

\* update_product with a price: retailers and admins only, and only the
\* owner of the product row finds it; the row takes float(price).
UpdateProduct(user, product_id, price) ==
    /\ ncalls' = ncalls + 1
    /\ LET n == ncalls + 1
           R(code, detail) == [op |-> "update_product", code |-> code,
                               detail |-> detail, id |-> n,
                               product_id |-> product_id, price |-> price]
       IN  IF user.role \notin {"retailer", "admin"}
           THEN /\ response' = R(403, "Insufficient permissions")
                /\ UNCHANGED <<product_price, order_items>>
           ELSE IF product_id \notin DOMAIN products \/ user.id # ProductOwner
           THEN /\ response' = R(404, "Product not found")
                /\ UNCHANGED <<product_price, order_items>>
           ELSE /\ product_price' = [product_price EXCEPT ![product_id] = as_float(price)]
                /\ order_items' = order_items_kept(product_id, price)
                /\ response' = R(200, "updated")
    /\ UNCHANGED <<payment_audit, created_wallets, wsVars, stockVars, delivVars, payVars,
                   invVars, orders, audit_logs, notifications, calls, tasks, task_log, rpc_rejected, granted>>

\* The items of p1 only.
OfP1(qs) == [i \in DOMAIN qs |-> "p1"]

\* create_order up to the insert of the order row.  The items are validated
\* and priced in their order, each on its own (no item names a variant, so
\* the unit price is the product's): its product has to be there and active,
\* and the product's total available quantity (only p1 has inventory rows)
\* has to cover the item's quantity; the first item that fails ends the
\* request.  An item's warehouse_id is that of the first inventory row the
\* store returns (ws[i]: the query states no order, so any row of the product
\* may be first).
CreateOrder(user, retailer_id, ps, qs, ws) ==
    /\ FreeOrderIds # {}
    /\ DOMAIN ws = DOMAIN qs
    /\ DOMAIN ps = DOMAIN qs
    /\ LET o     == CHOOSE x \in FreeOrderIds : \A y \in FreeOrderIds : x <= y
           items == [i \in DOMAIN qs |->
                       [product_id |-> ps[i], warehouse_id |-> ws[i],
                        quantity |-> qs[i],
                        unit_price |-> as_float(PriceOf(ps[i])),
                        total_price |-> as_float(item_total(PriceOf(ps[i]), qs[i]))]]
           subtotal == SumOver(DOMAIN qs,
                               [i \in DOMAIN qs |-> item_total(PriceOf(ps[i]), qs[i])])
           total_amount == subtotal + tax_amount(subtotal) + shipping_amount
           bad   == {i \in DOMAIN qs :
                       product_unavailable(ps[i]) \/ total_available < qs[i]}
       IN  IF bad # {}
           THEN /\ LET i == CHOOSE x \in bad : \A y \in bad : x <= y
                   IN  response' =
                          [op |-> "create_order", code |-> 400,
                           detail |-> IF product_unavailable(ps[i])
                                      THEN "Product not available"
                                      ELSE "Insufficient stock",
                           id |-> 0, items |-> items]
                /\ UNCHANGED <<orders, calls>>
           ELSE /\ orders' = [orders EXCEPT ![o] =
                                 [status |-> "pending", customer_id |-> user.id,
                                  retailer_id |-> retailer_id, stamps |-> {},
                                  payment_status |-> "pending",
                                  subtotal |-> as_float(subtotal),
                                  tax_amount |-> as_float(tax_amount(subtotal)),
                                  shipping_amount |-> as_float(shipping_amount),
                                  total_amount |-> as_float(total_amount)]]
                /\ calls' = calls \cup
                                {[op |-> "create_order", pc |-> "items", order_id |-> o,
                                  items |-> items]}
                /\ UNCHANGED response
    /\ UNCHANGED <<svcVars, stockVars, delivVars, payVars, invVars, order_items, audit_logs, notifications, tasks, task_log,
                   rpc_rejected, granted, ncalls>>

\* The rest of create_order: the insert of the order items, the scheduling of
\* reserve_inventory_for_order as a background task, the audit row and the
\* response.
CreateOrderItems(c) ==
    /\ c \in calls
    /\ c.op = "create_order"
    /\ LET o == c.order_id
       IN  /\ order_items' = [order_items EXCEPT ![o] = c.items]
           /\ tasks' = tasks \cup {[kind |-> "reserve", id |-> 0, order_id |-> o,
                                    items |-> c.items, idx |-> 1]}
           /\ audit_logs' = audit_logs \cup {o}
           /\ response' = [op |-> "create_order", code |-> 200, detail |-> "created",
                           id |-> o, items |-> c.items]
    /\ calls' = calls \ {c}
    /\ UNCHANGED <<svcVars, stockVars, delivVars, payVars, invVars, orders, notifications, task_log, rpc_rejected, granted,
                   ncalls>>

\* The insert of the order items raises (or the worker dies before it): the
\* request ends with a 500, no background task runs, and the order row
\* inserted before stays as it is.
CreateOrderError(c) ==
    /\ c \in calls
    /\ c.op = "create_order"
    /\ response' = [op |-> "create_order", code |-> 500, detail |-> "Dependency",
                    id |-> c.order_id, items |-> c.items]
    /\ calls' = calls \ {c}
    /\ UNCHANGED <<svcVars, stockVars, delivVars, payVars, invVars, orderVars, notifications, tasks, task_log,
                   rpc_rejected, granted, ncalls>>

(***************************************************************************)
(* Background task reserve_inventory_for_order: one reserve_inventory call *)
(* per item, the result of the call not looked at; any exception ends the  *)
(* task with a log line.                                                   *)
(***************************************************************************)
ReserveTasks == {t \in tasks : t.kind = "reserve"}

ReserveTaskStep(t) ==
    /\ t \in ReserveTasks
    /\ LET item == t.items[t.idx]
           ok   == reserve_accepts(item.warehouse_id, item.quantity)
       IN  /\ reserve_inventory(t.order_id, item.warehouse_id, item.quantity)
           /\ rpc_rejected' = IF ok THEN rpc_rejected
                              ELSE rpc_rejected \cup {t.order_id}
           /\ granted' = IF ok
                         THEN [granted EXCEPT ![item.warehouse_id] = @ + item.quantity]
                         ELSE granted
    /\ IF t.idx < Len(t.items)
       THEN /\ tasks' = (tasks \ {t}) \cup {[t EXCEPT !.idx = @ + 1]}
            /\ UNCHANGED task_log
       ELSE /\ tasks' = tasks \ {t}
            /\ task_log' = task_log \cup {<<"Inventory reserved", t.order_id>>}
    /\ UNCHANGED <<svcVars, stockVars, delivVars, payVars, orderVars, notifications, calls, response, ncalls>>

\* The store is unreachable (or the RPC raises): the except branch logs and
\* the remaining items are not reserved.
ReserveTaskError(t) ==
    /\ t \in ReserveTasks
    /\ tasks' = tasks \ {t}
    /\ task_log' = task_log \cup {<<"Failed to reserve inventory", t.order_id>>}
    /\ UNCHANGED <<svcVars, stockVars, delivVars, payVars, invVars, orderVars, notifications, calls, rpc_rejected, granted,
                   response, ncalls>>

(***************************************************************************)
(* Order service: update_order_status.                                     *)
(***************************************************************************)
\* The permission check: a retailer must be the order's retailer; a customer
\* may only cancel an order it read as pending; no other role is checked.
permission_denied(user, order, new_status) ==
    \/ user.role = "retailer" /\ order.retailer_id # user.id
    \/ user.role = "customer"
         /\ (new_status # "cancelled" \/ order.status # "pending")

\* The transition check: made only when the current status is a key of
\* valid_transitions.
transition_refused(current_status, new_status) ==
    /\ current_status \in DOMAIN valid_transitions
    /\ new_status \notin valid_transitions[current_status]

\* The timestamp columns an update to new_status sets.
StampsOf(new_status) ==
    CASE new_status = "confirmed"        -> {"confirmed_at"}
      [] new_status = "out_for_delivery" -> {"shipped_at"}
      [] new_status = "delivered"        -> {"delivered_at"}
      [] new_status = "cancelled"        -> {"cancelled_at"}
      [] OTHER                           -> {}

\* A response of update_order_status, with the request it answers: the user,
\* the order, the status asked for and the status the handler read.
StatusResponse(n, code, detail, user, o, read_status, new_status) ==
    [op |-> "update_order_status", code |-> code, detail |-> detail, id |-> n,
     user |-> user, order_id |-> o, read_status |-> read_status,
     status |-> new_status]

\* update_order_status up to its update of the order row: the read of the
\* order, the permission check and the transition check.
UpdateStatusRead(user, o, new_status) ==
    /\ ncalls' = ncalls + 1
    /\ LET order == orders[o]
           n     == ncalls + 1
       IN  IF order = NoOrder
           THEN /\ response' = StatusResponse(n, 404, "Order not found",
                                              user, o, "none", new_status)
                /\ UNCHANGED calls
           ELSE IF permission_denied(user, order, new_status)
           THEN /\ response' = StatusResponse(n, 403, "Forbidden",
                                              user, o, order.status, new_status)
                /\ UNCHANGED calls
           ELSE IF transition_refused(order.status, new_status)
           THEN /\ response' = StatusResponse(n, 400, "InvalidTransition",
                                              user, o, order.status, new_status)
                /\ UNCHANGED calls
           ELSE /\ calls' = calls \cup
                               {[op |-> "update_order_status", pc |-> "update",
                                 id |-> n, order_id |-> o, user |-> user,
                                 status |-> new_status, read_status |-> order.status,
                                 customer_id |-> order.customer_id]}
                /\ UNCHANGED response
    /\ UNCHANGED <<svcVars, stockVars, delivVars, payVars, invVars, orderVars, notifications, tasks, task_log,
                   rpc_rejected, granted>>

\* An update that schedules the release of a cancelled order's stock and no
\* notification.
TasksOfUpdateSilent(c) ==
    IF c.status = "cancelled"
    THEN {[kind |-> "release", id |-> c.id, order_id |-> c.order_id,
           items |-> <<>>, idx |-> 0]}
    ELSE {}

\* The background tasks a successful update to new_status leaves behind.
TasksOfUpdate(c) ==
    (IF c.status = "cancelled"
     THEN {[kind |-> "release", id |-> c.id, order_id |-> c.order_id,
            items |-> <<>>, idx |-> 0]}
     ELSE {})
    \cup {[kind |-> "notify", id |-> c.id, order_id |-> c.order_id,
           customer_id |-> c.customer_id, status |-> c.status]}

\* The update of the order row (filtered by id alone), after which the
\* response is sent and the scheduled background tasks start.
UpdateStatusWrite(c) ==
    /\ c \in calls
    /\ c.op = "update_order_status"
    /\ LET o == c.order_id
       IN  /\ orders' = [orders EXCEPT
                            ![c.order_id].status = c.status,
                            ![c.order_id].stamps = @ \cup StampsOf(c.status)]
           /\ tasks' = tasks \cup TasksOfUpdate(c)
           /\ response' = StatusResponse(c.id, 200, "Order status updated",
                                         c.user, o, c.read_status, c.status)
    /\ calls' = calls \ {c}
    /\ UNCHANGED <<svcVars, stockVars, delivVars, payVars, invVars, order_items, audit_logs, notifications, task_log,
                   rpc_rejected, granted, ncalls>>

\* The update raises (the store is unreachable): the handler answers 500 and
\* no background task runs.
UpdateStatusError(c) ==
    /\ c \in calls
    /\ c.op = "update_order_status"
    /\ response' = StatusResponse(c.id, 500, "Dependency",
                                  c.user, c.order_id, c.read_status, c.status)
    /\ calls' = calls \ {c}
    /\ UNCHANGED <<svcVars, stockVars, delivVars, payVars, invVars, orderVars, notifications, tasks, task_log,
                   rpc_rejected, granted, ncalls>>

(***************************************************************************)
(* Background task release_inventory_for_order: it reads the order's items *)
(* and calls release_inventory_reservation once per item; any exception    *)
(* ends the task with a log line.                                          *)
(***************************************************************************)
ReleaseTasks == {t \in tasks : t.kind = "release"}

ReleaseTaskQuery(t) ==
    /\ t \in ReleaseTasks
    /\ t.idx = 0
    /\ LET items == order_items[t.order_id]
       IN  IF items = <<>>
           THEN /\ tasks' = tasks \ {t}
                /\ task_log' = task_log \cup {<<"Inventory released", t.order_id>>}
           ELSE /\ tasks' = (tasks \ {t}) \cup
                               {[t EXCEPT !.items = items, !.idx = 1]}
                /\ UNCHANGED task_log
    /\ UNCHANGED <<svcVars, stockVars, delivVars, payVars, invVars, orderVars, notifications, calls, rpc_rejected, granted,
                   response, ncalls>>

ReleaseTaskStep(t) ==
    /\ t \in ReleaseTasks
    /\ t.idx > 0
    /\ release_inventory_reservation(t.order_id, t.items[t.idx].warehouse_id)
    /\ IF t.idx < Len(t.items)
       THEN /\ tasks' = (tasks \ {t}) \cup {[t EXCEPT !.idx = @ + 1]}
            /\ UNCHANGED task_log
       ELSE /\ tasks' = tasks \ {t}
            /\ task_log' = task_log \cup {<<"Inventory released", t.order_id>>}
    /\ UNCHANGED <<svcVars, stockVars, delivVars, payVars, orderVars, notifications, calls, rpc_rejected, granted, response,
                   ncalls>>

ReleaseTaskError(t) ==
    /\ t \in ReleaseTasks
    /\ tasks' = tasks \ {t}
    /\ task_log' = task_log \cup {<<"Failed to release inventory", t.order_id>>}
    /\ UNCHANGED <<svcVars, stockVars, delivVars, payVars, invVars, orderVars, notifications, calls, rpc_rejected, granted,
                   response, ncalls>>

(***************************************************************************)
(* Background task send_order_notification: one notification row, or a     *)
(* log line if the store raises.                                           *)
(***************************************************************************)
NotifyTasks == {t \in tasks : t.kind = "notify"}

NotifyTask(t) ==
    /\ t \in NotifyTasks
    /\ tasks' = tasks \ {t}
    /\ notifications' = notifications \cup
          {[order_id |-> t.order_id, user_id |-> t.customer_id,
            status |-> t.status, id |-> t.id, category |-> "order"]}
    /\ UNCHANGED <<svcVars, stockVars, delivVars, payVars, invVars, orderVars, calls, task_log, rpc_rejected, granted,
                   response, ncalls>>

\* A dispatcher whose failure takes the status change back.
NotifyTaskErrorReverts(t) ==
    /\ t \in NotifyTasks
    /\ tasks' = tasks \ {t}
    /\ task_log' = task_log \cup {<<"Failed to send notification", t.order_id>>}
    /\ orders' = [orders EXCEPT ![t.order_id].status = "pending",
                                ![t.order_id].stamps = {}]
    /\ UNCHANGED <<svcVars, stockVars, delivVars, payVars, invVars, order_items, audit_logs, notifications, calls,
                   rpc_rejected, granted, response, ncalls>>

NotifyTaskError(t) ==
    /\ t \in NotifyTasks
    /\ tasks' = tasks \ {t}
    /\ task_log' = task_log \cup {<<"Failed to send notification", t.order_id>>}
    /\ UNCHANGED <<svcVars, stockVars, delivVars, payVars, invVars, orderVars, notifications, calls, rpc_rejected, granted,
                   response, ncalls>>

(***************************************************************************)
(* Stored procedures of the wallet ledger, each one atomic step.  They are *)
(* not part of the service code; they follow the ledger contract: a debit  *)
(* is refused if balance < amount, otherwise it lowers the balance and     *)
(* appends a wallet transaction; a credit raises the balance and appends a *)
(* wallet transaction; a transfer is a debit and a credit in one unit.     *)
(***************************************************************************)
LedgerRow(id, user_id, type, amount, reference) ==
    [id |-> id, user_id |-> user_id, type |-> type, amount |-> amount,
     status |-> "completed", reference |-> reference]

\* A debit that does not compare the balance with the amount.
deduct_accepts_unchecked(user_id, amount) == TRUE

deduct_accepts(user_id, amount) == wallets[user_id] >= amount

deduct_wallet_balance(id, user_id, amount, reference) ==
    IF deduct_accepts(user_id, amount)
    THEN /\ wallets' = [wallets EXCEPT ![user_id] = @ - amount]
         /\ wallet_transactions' = wallet_transactions \cup
               {LedgerRow(id, user_id, "payment", amount, reference)}
    ELSE UNCHANGED <<wallets, wallet_transactions>>

credit_wallet_balance(id, user_id, amount, reference) ==
    /\ wallets' = [wallets EXCEPT ![user_id] = @ + amount]
    /\ wallet_transactions' = wallet_transactions \cup
          {LedgerRow(id, user_id, "refund", amount, reference)}

\* The same credit with the description "Mobile money deposit": the row it
\* appends is the ledger's own, next to the deposit row of the top-up.
credit_wallet_balance_deposit(id, user_id, amount, reference) ==
    /\ wallets' = [wallets EXCEPT ![user_id] = @ + amount]
    /\ wallet_transactions' = wallet_transactions \cup
          {LedgerRow(id, user_id, "mobile_money_deposit", amount, reference)}

\* A transfer that debits the sender and credits nobody.
transfer_wallet_funds_debit_only(id, sender_id, recipient_id, amount) ==
    /\ wallets' = [wallets EXCEPT ![sender_id] = @ - amount]
    /\ UNCHANGED wallet_transactions

transfer_wallet_funds(id, sender_id, recipient_id, amount) ==
    IF deduct_accepts(sender_id, amount)
    THEN /\ wallets' = [wallets EXCEPT ![sender_id] = @ - amount,
                                       ![recipient_id] = @ + amount]
         /\ wallet_transactions' = wallet_transactions \cup
               {LedgerRow(id, sender_id, "transfer", 0 - amount, recipient_id),
                LedgerRow(id, recipient_id, "transfer", amount, sender_id)}
    ELSE UNCHANGED <<wallets, wallet_transactions>>

\* get_daily_transaction_total: the sum of the user's transactions of the
\* type (every row of a behaviour is of the same day).
RECURSIVE SumAmounts(_)
SumAmounts(rows) ==
    IF rows = {} THEN 0
    ELSE LET r == CHOOSE x \in rows : TRUE IN r.amount + SumAmounts(rows \ {r})

get_daily_transaction_total(user_id, type) ==
    SumAmounts({r \in wallet_transactions : r.user_id = user_id /\ r.type = type})

(***************************************************************************)
(* Payment service: the audit trail.  A handler schedules _log_audit as a  *)
(* background task right before it returns; the task runs once the         *)
(* response is sent, and the model writes its row with the response.       *)
(***************************************************************************)
\* _log_audit: the insert of the audit row of the request id.
log_audit(id, user_id, action) ==
    payment_audit' = payment_audit \cup
        {[id |-> id, user_id |-> user_id, action |-> action]}

(***************************************************************************)
(* Payment service: process_payment.                                       *)
(***************************************************************************)
PaymentMethods == {"wallet", "mobile_money"}

\* require_kyc_level(level): users below the level are answered 403.
kyc_below(user, level) == kyc_level[user.id] < level

PaymentResponse(c, code, status, detail) ==
    [op |-> "process_payment", code |-> code, detail |-> detail, id |-> c.id,
     status |-> status, user_id |-> c.user_id, amount |-> c.amount]

\* process_payment up to the insert of the payment row: the KYC gate, the
\* lookup of the user's order (the service filters the orders by the caller's
\* id) and the check of its payment_status.
ProcessPayment(user, o, amount, method) ==
    /\ ncalls' = ncalls + 1
    /\ LET n == ncalls + 1
           c == [op |-> "process_payment", id |-> n, user_id |-> user.id,
                 order_id |-> o, amount |-> amount, payment_method |-> method,
                 result |-> "none", detail |-> "none",
                 pc |-> IF method = "wallet" THEN "wallet" ELSE "status"]
       IN  IF kyc_below(user, 1)
           THEN /\ response' = PaymentResponse(c, 403, "none", "KYC level required")
                /\ UNCHANGED <<payments, calls>>
           ELSE IF orders[o] = NoOrder \/ orders[o].customer_id # user.id
           THEN /\ response' = PaymentResponse(c, 404, "none", "Order not found")
                /\ UNCHANGED <<payments, calls>>
           ELSE IF orders[o].payment_status = "completed"
           THEN /\ response' = PaymentResponse(c, 400, "none", "Order already paid")
                /\ UNCHANGED <<payments, calls>>
           ELSE /\ payments' = [payments EXCEPT ![n] =
                                   [status |-> "pending", user_id |-> user.id,
                                    order_id |-> o, amount |-> amount,
                                    payment_method |-> method]]
                /\ calls' = calls \cup
                      {IF method = "wallet" THEN c
                       ELSE [c EXCEPT !.result = "processing",
                                      !.detail = "Mobile money payment initiated"]}
                /\ UNCHANGED response
    /\ UNCHANGED <<svcVars, stockVars, delivVars, invVars, orderVars, notifications, tasks, task_log, rpc_rejected,
                   granted, wallets, refunds, wallet_transactions>>

\* _process_wallet_payment up to the RPC: the read of the wallet and the
\* comparison of the balance read with the amount.
ProcessWalletPaymentRead(c) ==
    /\ c \in calls
    /\ c.op = "process_payment"
    /\ c.pc = "wallet"
    /\ calls' = (calls \ {c}) \cup
          {IF wallets[c.user_id] < c.amount
           THEN [c EXCEPT !.pc = "status", !.result = "failed",
                          !.detail = "Insufficient wallet balance"]
           ELSE [c EXCEPT !.pc = "deduct"]}
    /\ UNCHANGED <<svcVars, stockVars, delivVars, invVars, orderVars, notifications, tasks, task_log, rpc_rejected,
                   granted, response, ncalls, payVars>>

\* The deduct_wallet_balance RPC and the result made of its answer.
ProcessWalletPaymentDeduct(c) ==
    /\ c \in calls
    /\ c.op = "process_payment"
    /\ c.pc = "deduct"
    /\ deduct_wallet_balance(c.id, c.user_id, c.amount, c.id)
    /\ calls' = (calls \ {c}) \cup
          {IF deduct_accepts(c.user_id, c.amount)
           THEN [c EXCEPT !.pc = "status", !.result = "completed",
                          !.detail = "Payment completed from wallet"]
           ELSE [c EXCEPT !.pc = "status", !.result = "failed",
                          !.detail = "Wallet deduction failed"]}
    /\ UNCHANGED <<svcVars, stockVars, delivVars, invVars, orderVars, notifications, tasks, task_log, rpc_rejected,
                   granted, response, ncalls, payments, refunds>>

\* The update of the payment row with the result's status, and the response.
ProcessPaymentStatus(c) ==
    /\ c \in calls
    /\ c.op = "process_payment"
    /\ c.pc = "status"
    /\ payments' = [payments EXCEPT ![c.id].status = c.result]
    /\ calls' = calls \ {c}
    /\ response' = PaymentResponse(c, 200, c.result, c.detail)
    /\ log_audit(c.id, c.user_id, "payment_initiated")
    /\ UNCHANGED <<product_price, created_wallets, wsVars, stockVars, delivVars, invVars, orderVars, notifications, tasks, task_log, rpc_rejected,
                   granted, ncalls, wallets, refunds, wallet_transactions>>

(***************************************************************************)
(* Payment service: transfer_funds.                                        *)
(***************************************************************************)
TransferResponse(n, code, detail, sender_id, recipient_id, amount) ==
    [op |-> "transfer_funds", code |-> code, detail |-> detail, id |-> n,
     sender_id |-> sender_id, recipient_id |-> recipient_id, amount |-> amount]

TransferFunds(user, recipient_id, amount) ==
    /\ ncalls' = ncalls + 1
    /\ IF kyc_below(user, 1)
       THEN /\ response' = TransferResponse(ncalls + 1, 403, "KYC level required",
                                            user.id, recipient_id, amount)
            /\ UNCHANGED <<wallets, wallet_transactions, payment_audit>>
       ELSE IF recipient_id = user.id
       THEN /\ response' = TransferResponse(ncalls + 1, 400, "Cannot transfer to yourself",
                                            user.id, recipient_id, amount)
            /\ UNCHANGED <<wallets, wallet_transactions, payment_audit>>
       ELSE IF recipient_id \notin DOMAIN kyc_level
       THEN /\ response' = TransferResponse(ncalls + 1, 404, "Recipient not found",
                                            user.id, recipient_id, amount)
            /\ UNCHANGED <<wallets, wallet_transactions, payment_audit>>
       ELSE /\ transfer_wallet_funds(ncalls + 1, user.id, recipient_id, amount)
            /\ IF deduct_accepts(user.id, amount)
               THEN /\ response' = TransferResponse(ncalls + 1, 200, "completed",
                                                    user.id, recipient_id, amount)
                    /\ log_audit(ncalls + 1, user.id, "wallet_transfer")
               ELSE /\ response' = TransferResponse(ncalls + 1, 400, "Transfer failed",
                                                    user.id, recipient_id, amount)
                    /\ UNCHANGED payment_audit
    /\ UNCHANGED <<product_price, created_wallets, wsVars, stockVars, delivVars, invVars, orderVars, notifications, calls, tasks, task_log,
                   rpc_rejected, granted, payments, refunds>>

(***************************************************************************)
(* Payment service: process_refund.  The handler has no exception handler: *)
(* a store call that raises ends it with a 500 and leaves what was written *)
(* before.                                                                 *)
(***************************************************************************)
\* A refund check that lets a payment of any state through.
refund_refused_never(payment) == FALSE

\* Only completed payments can be refunded.
refund_refused(payment) == payment.status # "completed"

\* request.amount if it is given (and not zero), else the payment's amount.
refund_amount(amount, payment) == IF amount # 0 THEN amount ELSE payment.amount

RefundResponse(n, code, detail, p, read_status, amount) ==
    [op |-> "process_refund", code |-> code, detail |-> detail, id |-> n,
     payment_id |-> p, read_status |-> read_status, amount |-> amount]

\* process_refund up to the insert of the refund row: the read of the
\* payment, the ownership check and the check of the payment's status.
ProcessRefund(user, p, amount) ==
    /\ ncalls' = ncalls + 1
    /\ LET n       == ncalls + 1
           payment == payments[p]
       IN  IF payment = NoPayment
           THEN /\ response' = RefundResponse(n, 404, "Payment not found", p, "none", 0)
                /\ UNCHANGED <<refunds, calls>>
           ELSE IF payment.user_id # user.id /\ user.role \notin {"admin", "support"}
           THEN /\ response' = RefundResponse(n, 403, "Forbidden", p,
                                              payment.status, 0)
                /\ UNCHANGED <<refunds, calls>>
           ELSE IF refund_refused(payment)
           THEN /\ response' = RefundResponse(n, 400, "InvalidState", p,
                                              payment.status, 0)
                /\ UNCHANGED <<refunds, calls>>
           ELSE /\ refunds' = [refunds EXCEPT ![n] =
                                  [status |-> "processing", original_payment_id |-> p,
                                   user_id |-> payment.user_id,
                                   amount |-> refund_amount(amount, payment)]]
                /\ calls' = calls \cup
                      {[op |-> "process_refund", pc |-> "credit", id |-> n,
                        payment_id |-> p, user_id |-> payment.user_id,
                        processed_by |-> user.id,
                        read_status |-> payment.status,
                        amount |-> refund_amount(amount, payment)]}
                /\ UNCHANGED response
    /\ UNCHANGED <<svcVars, stockVars, delivVars, invVars, orderVars, notifications, tasks, task_log, rpc_rejected,
                   granted, wallets, payments, wallet_transactions>>

\* The credit_wallet_balance RPC to the wallet of the payment's user.
ProcessRefundCredit(c) ==
    /\ c \in calls
    /\ c.op = "process_refund"
    /\ c.pc = "credit"
    /\ credit_wallet_balance(c.id, c.user_id, c.amount, c.id)
    /\ calls' = (calls \ {c}) \cup {[c EXCEPT !.pc = "mark"]}
    /\ UNCHANGED <<svcVars, stockVars, delivVars, invVars, orderVars, notifications, tasks, task_log, rpc_rejected,
                   granted, response, ncalls, payments, refunds>>

\* The update of the payment row (filtered by id alone) to refunded.
ProcessRefundMark(c) ==
    /\ c \in calls
    /\ c.op = "process_refund"
    /\ c.pc = "mark"
    /\ payments' = [payments EXCEPT ![c.payment_id].status = "refunded"]
    /\ calls' = (calls \ {c}) \cup {[c EXCEPT !.pc = "complete"]}
    /\ UNCHANGED <<svcVars, stockVars, delivVars, invVars, orderVars, notifications, tasks, task_log, rpc_rejected,
                   granted, response, ncalls, wallets, refunds, wallet_transactions>>

\* The update of the refund row to completed, and the response.
ProcessRefundComplete(c) ==
    /\ c \in calls
    /\ c.op = "process_refund"
    /\ c.pc = "complete"
    /\ refunds' = [refunds EXCEPT ![c.id].status = "completed"]
    /\ calls' = calls \ {c}
    /\ response' = RefundResponse(c.id, 200, "Refund processed successfully",
                                  c.payment_id, c.read_status, c.amount)
    /\ log_audit(c.id, c.processed_by, "refund_processed")
    /\ UNCHANGED <<product_price, created_wallets, wsVars, stockVars, delivVars, invVars, orderVars, notifications, tasks, task_log, rpc_rejected,
                   granted, ncalls, wallets, payments, wallet_transactions>>

\* A store call of the handler raises after the refund row was inserted.
ProcessRefundError(c) ==
    /\ c \in calls
    /\ c.op = "process_refund"
    /\ calls' = calls \ {c}
    /\ response' = RefundResponse(c.id, 500, "Dependency",
                                  c.payment_id, c.read_status, c.amount)
    /\ UNCHANGED <<svcVars, stockVars, delivVars, invVars, orderVars, notifications, tasks, task_log, rpc_rejected,
                   granted, ncalls, payVars>>

(***************************************************************************)
(* Payment service: get_wallet_balance.  The wallets of WalletUsers exist  *)
(* at the start; the wallet of any other user is created on the user's     *)
(* first access.                                                           *)
(***************************************************************************)
WalletsOf(user_id) ==
    {w \in created_wallets : w.user_id = user_id}
    \cup (IF user_id \in DOMAIN wallets
          THEN {[id |-> 0, user_id |-> user_id, balance |-> wallets[user_id]]}
          ELSE {})

BalanceResponse(n, code, user_id, balance) ==
    [op |-> "get_wallet_balance", code |-> code, detail |-> "balance", id |-> n,
     user_id |-> user_id, balance |-> balance]

\* get_wallet_balance up to the insert: the lookup of the user's wallet and,
\* if there is one, the response.
GetWalletBalance(user) ==
    /\ ncalls' = ncalls + 1
    /\ LET n == ncalls + 1
       IN  IF WalletsOf(user.id) # {}
           THEN /\ \E w \in WalletsOf(user.id) :
                      response' = BalanceResponse(n, 200, user.id, w.balance)
                /\ UNCHANGED calls
           ELSE /\ calls' = calls \cup {[op |-> "get_wallet_balance", pc |-> "insert",
                                         id |-> n, user_id |-> user.id]}
                /\ UNCHANGED response
    /\ UNCHANGED <<svcVars, stockVars, delivVars, invVars, orderVars, notifications, tasks,
                   task_log, rpc_rejected, granted, payVars>>

\* The insert of the wallet of balance 0 under a new id, and the response.
WalletInsert(c) ==
    /\ c \in calls
    /\ c.op = "get_wallet_balance"
    /\ created_wallets' = created_wallets \cup
          {[id |-> c.id, user_id |-> c.user_id, balance |-> 0]}
    /\ calls' = calls \ {c}
    /\ response' = BalanceResponse(c.id, 200, c.user_id, 0)
    /\ UNCHANGED <<product_price, payment_audit, wsVars, stockVars, delivVars, invVars,
                   orderVars, notifications, tasks, task_log, rpc_rejected, granted, payVars,
                   ncalls>>

\* The insert raises (the store is unreachable, or it refuses the row): the
\* handler has no exception handler and the request ends with a 500.
WalletInsertError(c) ==
    /\ c \in calls
    /\ c.op = "get_wallet_balance"
    /\ calls' = calls \ {c}
    /\ response' = BalanceResponse(c.id, 500, c.user_id, 0)
    /\ UNCHANGED <<svcVars, stockVars, delivVars, invVars, orderVars, notifications, tasks,
                   task_log, rpc_rejected, granted, payVars, ncalls>>

(***************************************************************************)
(* Payment service: topup_wallet.                                          *)
(***************************************************************************)
DailyLimitBasic == 50000
DailyLimitFull  == 100000

\* The amounts of top-up requests (WalletTopUpRequest: 0 < amount <= 50000).
TopUpAmounts == {15000, 40000, 50000}

\* A limit that ignores the KYC level.
daily_limit_flat(level) == DailyLimitBasic

daily_limit(level) == IF level >= 2 THEN DailyLimitFull ELSE DailyLimitBasic

TopupResponse(n, code, detail, user, amount, daily_total) ==
    [op |-> "topup_wallet", code |-> code, detail |-> detail, id |-> n,
     user_id |-> user.id, amount |-> amount, daily_total |-> daily_total]

\* topup_wallet up to the insert of the transaction row: the KYC gate, the
\* day's total of the user's deposits and the limit check.
TopupWallet(user, amount) ==
    /\ ncalls' = ncalls + 1
    /\ LET n           == ncalls + 1
           daily_total == get_daily_transaction_total(user.id, "deposit")
       IN  IF kyc_below(user, 1)
           THEN /\ response' = TopupResponse(n, 403, "KYC level required",
                                             user, amount, daily_total)
                /\ UNCHANGED calls
           ELSE IF daily_total + amount > daily_limit(kyc_level[user.id])
           THEN /\ response' = TopupResponse(n, 400, "Daily limit exceeded",
                                             user, amount, daily_total)
                /\ UNCHANGED calls
           ELSE /\ calls' = calls \cup
                      {[op |-> "topup_wallet", pc |-> "insert", id |-> n,
                        user |-> user, amount |-> amount,
                        daily_total |-> daily_total]}
                /\ UNCHANGED response
    /\ UNCHANGED <<svcVars, stockVars, delivVars, invVars, orderVars, notifications, tasks, task_log, rpc_rejected,
                   granted, payVars>>

\* The insert of the pending deposit row, and the response.
TopupInsert(c) ==
    /\ c \in calls
    /\ c.op = "topup_wallet"
    /\ wallet_transactions' = wallet_transactions \cup
          {[id |-> c.id, user_id |-> c.user.id, type |-> "deposit",
            amount |-> c.amount, status |-> "pending", reference |-> c.id]}
    /\ calls' = calls \ {c}
    /\ response' = TopupResponse(c.id, 200, "Top-up initiated",
                                 c.user, c.amount, c.daily_total)
    /\ log_audit(c.id, c.user.id, "wallet_topup_initiated")
    /\ UNCHANGED <<product_price, created_wallets, wsVars, stockVars, delivVars, invVars, orderVars, notifications, tasks, task_log, rpc_rejected,
                   granted, ncalls, wallets, payments, refunds>>

(***************************************************************************)
(* Payment service: mobile_money_webhook.  The provider's callback names a *)
(* transaction by its reference and gives its status; the handler checks   *)
(* no signature and has no exception handler.  The ids of the service are  *)
(* UUIDs, so no reference contains "payment" and every callback takes the  *)
(* wallet transaction branch.                                              *)
(***************************************************************************)
WebhookStatuses == {"completed", "failed"}

WebhookResponse(n, code, detail, reference, status) ==
    [op |-> "mobile_money_webhook", code |-> code, detail |-> detail, id |-> n,
     reference |-> reference, status |-> status]

\* The rows of the table with the status of the row of id reference changed.
WithStatus(rows, reference, status) ==
    {IF r.id = reference THEN [r EXCEPT !.status = status] ELSE r : r \in rows}

\* mobile_money_webhook up to the read of the transaction: a callback without
\* a reference (0) is refused; otherwise the transaction's status is updated
\* and, for any status but completed, the request ends.
MobileMoneyWebhook(reference, status) ==
    /\ ncalls' = ncalls + 1
    /\ LET n == ncalls + 1
       IN  IF reference = 0
           THEN /\ response' = WebhookResponse(n, 400, "Missing reference",
                                               reference, status)
                /\ UNCHANGED <<wallet_transactions, calls>>
           ELSE /\ wallet_transactions' =
                      WithStatus(wallet_transactions, reference, status)
                /\ IF status = "completed"
                   THEN /\ calls' = calls \cup
                              {[op |-> "mobile_money_webhook", pc |-> "read", id |-> n,
                                reference |-> reference, status |-> status,
                                user_id |-> "none", amount |-> 0]}
                        /\ UNCHANGED response
                   ELSE /\ response' = WebhookResponse(n, 200, "processed",
                                                       reference, status)
                        /\ UNCHANGED calls
    /\ UNCHANGED <<svcVars, stockVars, delivVars, invVars, orderVars, notifications, tasks, task_log,
                   rpc_rejected, granted, wallets, payments, refunds>>

\* The read of the transaction: a deposit goes on to the credit, anything
\* else ends the request.
WebhookRead(c) ==
    /\ c \in calls
    /\ c.op = "mobile_money_webhook"
    /\ c.pc = "read"
    /\ LET found == {r \in wallet_transactions : r.id = c.reference}
       IN  IF found # {} /\ (CHOOSE r \in found : TRUE).type = "deposit"
           THEN /\ LET transaction == CHOOSE r \in found : TRUE
                   IN  calls' = (calls \ {c}) \cup
                          {[c EXCEPT !.pc = "credit",
                                     !.user_id = transaction.user_id,
                                     !.amount = transaction.amount]}
                /\ UNCHANGED response
           ELSE /\ calls' = calls \ {c}
                /\ response' = WebhookResponse(c.id, 200, "processed",
                                               c.reference, c.status)
    /\ UNCHANGED <<svcVars, stockVars, delivVars, invVars, orderVars, notifications, tasks, task_log,
                   rpc_rejected, granted, ncalls, payVars>>

\* The credit_wallet_balance RPC for the deposit, and the response.
WebhookCredit(c) ==
    /\ c \in calls
    /\ c.op = "mobile_money_webhook"
    /\ c.pc = "credit"
    /\ credit_wallet_balance_deposit(c.id, c.user_id, c.amount, c.reference)
    /\ calls' = calls \ {c}
    /\ response' = WebhookResponse(c.id, 200, "processed", c.reference, c.status)
    /\ UNCHANGED <<svcVars, stockVars, delivVars, invVars, orderVars, notifications, tasks, task_log,
                   rpc_rejected, granted, ncalls, payments, refunds>>

\* A store call of the handler raises after the update of the status.
WebhookError(c) ==
    /\ c \in calls
    /\ c.op = "mobile_money_webhook"
    /\ calls' = calls \ {c}
    /\ response' = WebhookResponse(c.id, 500, "Dependency", c.reference, c.status)
    /\ UNCHANGED <<svcVars, stockVars, delivVars, invVars, orderVars, notifications, tasks, task_log,
                   rpc_rejected, granted, ncalls, payVars>>

(***************************************************************************)
(* Notification service: the websocket registry.  A connection is a        *)
(* request of its own; its socket takes the request's number as id.        *)
(***************************************************************************)
UserIds == {u.id : u \in Users}

\* ConnectionManager.disconnect: active_connections.pop(user_id, None).
disconnect(socket) == [active_connections EXCEPT ![socket.user_id] = 0]

\* websocket_endpoint up to its receive loop: manager.connect accepts the
\* socket and stores it under the user id, over any entry there.
Connect(user_id) ==
    /\ ncalls' = ncalls + 1
    /\ live_sockets' = live_sockets \cup {[id |-> ncalls + 1, user_id |-> user_id]}
    /\ active_connections' = [active_connections EXCEPT ![user_id] = ncalls + 1]
    /\ UNCHANGED <<product_price, payment_audit, created_wallets, pushed, stockVars,
                   delivVars, payVars, invVars, orderVars, notifications, calls, tasks,
                   task_log, rpc_rejected, granted, response>>

\* The client of a socket goes away: receive_text raises WebSocketDisconnect
\* and the handler calls manager.disconnect with the user id of its path.
Disconnect(socket) ==
    /\ socket \in live_sockets
    /\ live_sockets' = live_sockets \ {socket}
    /\ active_connections' = disconnect(socket)
    /\ UNCHANGED <<product_price, payment_audit, created_wallets, pushed, stockVars,
                   delivVars, payVars, invVars, orderVars, notifications, calls, tasks,
                   task_log, rpc_rejected, granted, response, ncalls>>

(***************************************************************************)
(* Notification service: the event handlers.                               *)
(***************************************************************************)
OrderEvents ==
    {"order_placed", "order_confirmed", "order_shipped", "order_delivered",
     "order_cancelled"}

DeliveryEvents == {"delivery_assigned", "delivery_started", "delivery_completed"}

\* handle_order_event and handle_delivery_event: an event of the map
\* schedules _send_notification_internal for the user the payload names;
\* any event is answered "processed".
HandleEvent(op, known, event, ref, user_id) ==
    /\ ncalls' = ncalls + 1
    /\ tasks' = IF event \in known
                THEN tasks \cup {[kind |-> "send", id |-> ncalls + 1, order_id |-> ref,
                                  user_id |-> user_id, status |-> event]}
                ELSE tasks
    /\ response' = [op |-> op, code |-> 200, detail |-> "processed", id |-> ncalls + 1,
                    event |-> event, ref |-> ref]
    /\ UNCHANGED <<svcVars, stockVars, delivVars, payVars, invVars, orderVars, notifications,
                   calls, task_log, rpc_rejected, granted>>

HandleOrderEvent(event, o, user_id) ==
    HandleEvent("handle_order_event", OrderEvents, event, o, user_id)

HandleDeliveryEvent(event, d, user_id) ==
    HandleEvent("handle_delivery_event", DeliveryEvents, event, d, user_id)

SendTasks == {t \in tasks : t.kind = "send"}

\* _send_notification_internal: the insert of the notification row under a
\* new id, and its push over the socket the registry holds for the user.
SendNotificationInternal(t) ==
    /\ t \in SendTasks
    /\ tasks' = tasks \ {t}
    /\ notifications' = notifications \cup
          {[order_id |-> t.order_id, user_id |-> t.user_id, status |-> t.status,
            id |-> t.id, category |-> "event"]}
    /\ pushed' = IF active_connections[t.user_id] # 0
                 THEN pushed \cup {<<active_connections[t.user_id], t.id>>}
                 ELSE pushed
    /\ UNCHANGED <<product_price, payment_audit, created_wallets, active_connections,
                   live_sockets, stockVars, delivVars, payVars, invVars, orderVars, calls,
                   task_log, rpc_rejected, granted, response, ncalls>>

(***************************************************************************)
(* Delivery service: assign_driver and update_delivery_status with their   *)
(* background tasks.  No service creates delivery rows; a row appears in   *)
(* the table for an order that waits for its pickup.                       *)
(***************************************************************************)
DeliveryStatuses ==
    {"accepted", "picked_up", "in_transit", "arrived", "delivered", "failed"}

\* A delivery row is created for an order that is ready for pickup.
NewDelivery(o) ==
    /\ deliveries[o] = NoDelivery
    /\ orders[o].status = "ready_for_pickup"
    /\ deliveries' = [deliveries EXCEPT ![o] =
                         [order_id |-> o, driver_id |-> "none", status |-> "pending"]]
    /\ UNCHANGED <<svcVars, stockVars, payVars, invVars, orderVars, notifications, calls, tasks, task_log,
                   rpc_rejected, granted, response, ncalls, drivers>>

DeliveryResponse(op, n, code, detail, d, status) ==
    [op |-> op, code |-> code, detail |-> detail, id |-> n, delivery_id |-> d,
     status |-> status]

\* assign_driver: admins and retailers only; the driver has to be active and
\* available; the update is filtered by the delivery's id alone.
AssignDriver(user, d, driver_id) ==
    /\ ncalls' = ncalls + 1
    /\ LET n == ncalls + 1
       IN  IF user.role \notin {"admin", "retailer"}
           THEN /\ response' = DeliveryResponse("assign_driver", n, 403, "Forbidden",
                                                d, "none")
                /\ UNCHANGED <<deliveries, tasks>>
           ELSE IF \/ driver_id \notin DriverIds
                   \/ drivers[driver_id].status # "active"
                   \/ ~drivers[driver_id].is_available
           THEN /\ response' = DeliveryResponse("assign_driver", n, 400,
                                                "Driver not available", d, "none")
                /\ UNCHANGED <<deliveries, tasks>>
           ELSE /\ deliveries' =
                      IF deliveries[d] = NoDelivery THEN deliveries
                      ELSE [deliveries EXCEPT ![d].driver_id = driver_id,
                                              ![d].status = "assigned"]
                /\ tasks' = tasks \cup
                      {[kind |-> "notify_driver", id |-> n, delivery_id |-> d,
                        user_id |-> drivers[driver_id].user_id]}
                /\ response' = DeliveryResponse("assign_driver", n, 200,
                                                "Driver assigned successfully",
                                                d, "assigned")
    /\ UNCHANGED <<svcVars, stockVars, payVars, invVars, orderVars, notifications, calls, task_log,
                   rpc_rejected, granted, drivers>>

\* update_delivery_status up to its update of the delivery row: the read of
\* the delivery and, for a driver, the check that the delivery is the
\* driver's.  Callers of any other role are not checked.
DeliveryStatusRead(user, d, status) ==
    /\ ncalls' = ncalls + 1
    /\ LET n        == ncalls + 1
           delivery == deliveries[d]
       IN  IF delivery = NoDelivery
           THEN /\ response' = DeliveryResponse("update_delivery_status", n, 404,
                                                "Delivery not found", d, status)
                /\ UNCHANGED calls
           ELSE IF user.role = "driver"
                   /\ (user.id \notin DriverIds \/ delivery.driver_id # user.id)
           THEN /\ response' = DeliveryResponse("update_delivery_status", n, 403,
                                                "Access denied", d, status)
                /\ UNCHANGED calls
           ELSE /\ calls' = calls \cup
                      {[op |-> "update_delivery_status", pc |-> "delivery", id |-> n,
                        delivery_id |-> d, order_id |-> delivery.order_id,
                        driver_id |-> delivery.driver_id, status |-> status]}
                /\ UNCHANGED response
    /\ UNCHANGED <<svcVars, stockVars, payVars, invVars, orderVars, notifications, tasks, task_log,
                   rpc_rejected, granted, delivVars>>

\* The background tasks update_delivery_status leaves behind.
TasksOfDelivery(c) ==
    (IF c.status = "delivered"
     THEN {[kind |-> "driver_stats", id |-> c.id, driver_id |-> c.driver_id,
            pc |-> "read", completed_deliveries |-> 0]}
     ELSE {})
    \cup {[kind |-> "notify_delivery", id |-> c.id, delivery_id |-> c.delivery_id,
           status |-> c.status]}

\* data={"status": "delivered", "delivered_at": ...}, filters={"id": order_id}
delivered_order(order) ==
    [order EXCEPT !.status = "delivered", !.stamps = @ \cup {"delivered_at"}]

\* The update of the delivery row.  A status other than delivered ends the
\* request here: the tasks are scheduled and the response is sent.
DeliveryStatusWrite(c) ==
    /\ c \in calls
    /\ c.op = "update_delivery_status"
    /\ c.pc = "delivery"
    /\ deliveries' = [deliveries EXCEPT ![c.delivery_id].status = c.status]
    /\ IF c.status = "delivered"
       THEN /\ calls' = (calls \ {c}) \cup {[c EXCEPT !.pc = "order"]}
            /\ UNCHANGED <<tasks, response>>
       ELSE /\ calls' = calls \ {c}
            /\ tasks' = tasks \cup TasksOfDelivery(c)
            /\ response' = DeliveryResponse("update_delivery_status", c.id, 200,
                                            "Status updated successfully",
                                            c.delivery_id, c.status)
    /\ UNCHANGED <<svcVars, stockVars, payVars, invVars, orderVars, notifications, task_log,
                   rpc_rejected, granted, ncalls, drivers>>

\* The update of the order row of a delivered delivery, filtered by the
\* order's id alone; then the tasks are scheduled and the response is sent.
DeliveryOrderWrite(c) ==
    /\ c \in calls
    /\ c.op = "update_delivery_status"
    /\ c.pc = "order"
    /\ orders' = [orders EXCEPT ![c.order_id] = delivered_order(@)]
    /\ calls' = calls \ {c}
    /\ tasks' = tasks \cup TasksOfDelivery(c)
    /\ response' = DeliveryResponse("update_delivery_status", c.id, 200,
                                    "Status updated successfully",
                                    c.delivery_id, c.status)
    /\ UNCHANGED <<svcVars, stockVars, payVars, invVars, order_items, audit_logs, notifications, task_log,
                   rpc_rejected, granted, ncalls, delivVars>>

\* Background task notify_driver_assignment: one notification row.
NotifyDriverTask(t) ==
    /\ t \in tasks
    /\ t.kind = "notify_driver"
    /\ tasks' = tasks \ {t}
    /\ notifications' = notifications \cup
          {[order_id |-> t.delivery_id, user_id |-> t.user_id,
            status |-> "assigned", id |-> t.id, category |-> "delivery"]}
    /\ UNCHANGED <<svcVars, stockVars, payVars, invVars, orderVars, calls, task_log, rpc_rejected, granted,
                   response, ncalls, delivVars>>

\* Background task notify_delivery_status: one notification row for the
\* customer of the delivery's order.
NotifyDeliveryTask(t) ==
    /\ t \in tasks
    /\ t.kind = "notify_delivery"
    /\ tasks' = tasks \ {t}
    /\ notifications' = notifications \cup
          {[order_id |-> t.delivery_id,
            user_id |-> orders[deliveries[t.delivery_id].order_id].customer_id,
            status |-> t.status, id |-> t.id, category |-> "delivery"]}
    /\ UNCHANGED <<svcVars, stockVars, payVars, invVars, orderVars, calls, task_log, rpc_rejected, granted,
                   response, ncalls, delivVars>>

\* Background task increment_driver_deliveries: the read of the driver row;
\* without a driver row the task ends with a log line.
DriverStatsRead(t) ==
    /\ t \in tasks
    /\ t.kind = "driver_stats"
    /\ t.pc = "read"
    /\ IF t.driver_id \in DriverIds
       THEN /\ tasks' = (tasks \ {t}) \cup
                  {[t EXCEPT !.pc = "update",
                             !.completed_deliveries =
                                 drivers[t.driver_id].completed_deliveries]}
            /\ UNCHANGED task_log
       ELSE /\ tasks' = tasks \ {t}
            /\ task_log' = task_log \cup {<<"Failed to update driver stats", t.id>>}
    /\ UNCHANGED <<svcVars, stockVars, payVars, invVars, orderVars, notifications, calls, rpc_rejected,
                   granted, response, ncalls, delivVars>>

\* The update of the driver row with the count read plus one.
DriverStatsWrite(t) ==
    /\ t \in tasks
    /\ t.kind = "driver_stats"
    /\ t.pc = "update"
    /\ drivers' = [drivers EXCEPT ![t.driver_id].completed_deliveries =
                                      t.completed_deliveries + 1]
    /\ tasks' = tasks \ {t}
    /\ UNCHANGED <<svcVars, stockVars, payVars, invVars, orderVars, notifications, calls, task_log,
                   rpc_rejected, granted, response, ncalls, deliveries>>

(***************************************************************************)
(* Specifications.  Each one bounds the requests of a behaviour and draws  *)
(* their inputs from a small set.                                          *)
(***************************************************************************)
Budget(n) == ncalls < n

OrdersCreated == Cardinality(OrderIds \ FreeOrderIds)

Owner    == UserWithId("c1")     \* the customer who places the orders
Retailer == UserWithId("r1")     \* the retailer the orders are placed with

\* The steps of requests in progress and of background tasks.
Progress ==
    \/ \E c \in calls : CreateOrderItems(c)
    \/ \E t \in tasks : ReserveTaskStep(t)
    \/ \E t \in tasks : ReserveTaskError(t)
    \/ \E c \in calls : UpdateStatusWrite(c)
    \/ \E c \in calls : UpdateStatusError(c)
    \/ \E t \in tasks : ReleaseTaskQuery(t)
    \/ \E t \in tasks : ReleaseTaskStep(t)
    \/ \E t \in tasks : ReleaseTaskError(t)
    \/ \E t \in tasks : NotifyTask(t)
    \/ \E t \in tasks : NotifyTaskError(t)

\* The saga and the ledger: orders are placed, confirmed and cancelled while
\* the stock of the rows they reserve is adjusted, transferred, reserved and
\* released through the inventory service.
Next ==
    \/ \E qs \in ItemQuantities :
          \E ws \in [DOMAIN qs -> Warehouses] :
             CreateOrder(Owner, Retailer.id, OfP1(qs), qs, ws)
    \/ Progress
    \/ \E u \in {Owner, Retailer}, o \in OrderIds,
          st \in {"confirmed", "cancelled"} :
          Budget(MaxCalls) /\ UpdateStatusRead(u, o, st)
    \/ \E op \in StockOps, w \in Warehouses :
          \E ch \in StockChanges(op) : Budget(MaxCalls) /\ StockRead(op, w, ch)
    \/ \E c \in calls : StockWrite(c)
    \/ \E from \in Warehouses, to \in Warehouses, q \in 1..MaxQty :
          Budget(MaxCalls) /\ TransferStock(from, to, q)
    \/ \E w \in Warehouses, q \in 1..MaxQty, o \in OrderIds :
          Budget(MaxCalls) /\ ReserveStock(w, q, o)
    \/ \E w \in Warehouses, o \in OrderIds :
          Budget(MaxCalls) /\ ReleaseReservation(w, o)

Spec == Init /\ [][Next]_vars

\* The status machine: one order of one item, and status updates by every
\* user to every target status.
NextStatus ==
    \/ OrdersCreated < 1
          /\ CreateOrder(Owner, Retailer.id, <<"p1">>, <<1>>, <<"w1">>)
    \/ Progress
    \/ \E u \in Users, o \in OrderIds, st \in TargetStatuses :
          Budget(MaxStatusCalls) /\ UpdateStatusRead(u, o, st)

SpecStatus == Init /\ [][NextStatus]_vars

\* The saga alone: an order is placed, and once create_order has answered the
\* order is confirmed or cancelled by its customer or its retailer.
NextSaga ==
    \/ \E qs \in ItemQuantities :
          \E ws \in [DOMAIN qs -> Warehouses] :
             CreateOrder(Owner, Retailer.id, OfP1(qs), qs, ws)
    \/ Progress
    \/ \E u \in {Owner, Retailer}, o \in audit_logs,
          st \in {"confirmed", "cancelled"} :
          Budget(MaxCalls) /\ UpdateStatusRead(u, o, st)

SpecSaga == Init /\ [][NextSaga]_vars

\* Reservations only: reserve_stock calls and the reservations of new orders
\* compete for the stock the rows have at the start.
NextReserve ==
    \/ \E qs \in {<<1>>, <<MaxQty>>, <<1, MaxQty>>},
          w \in Warehouses :
          OrdersCreated < 1
          /\ CreateOrder(Owner, Retailer.id, OfP1(qs), qs, [i \in DOMAIN qs |-> w])
    \/ \E c \in calls : CreateOrderItems(c)
    \/ \E t \in tasks : ReserveTaskStep(t)
    \/ \E t \in tasks : ReserveTaskError(t)
    \/ \E w \in Warehouses, q \in 1..MaxQty, o \in OrderIds :
          Budget(MaxReserveCalls) /\ ReserveStock(w, q, o)

SpecReserve == Init /\ [][NextReserve]_vars

\* Reserve and release: reservations are made through reserve_stock and by
\* the orders placed, and released through release_reservation and by the
\* cancellation of the orders.
NextRelease ==
    \/ OrdersCreated < 1
          /\ CreateOrder(Owner, Retailer.id, <<"p1", "p1">>, <<1, MaxQty>>, <<"w1", "w1">>)
    \/ \E c \in calls : CreateOrderItems(c)
    \/ \E t \in tasks : ReserveTaskStep(t)
    \/ \E c \in calls : UpdateStatusWrite(c)
    \/ \E t \in tasks : ReleaseTaskQuery(t)
    \/ \E t \in tasks : ReleaseTaskStep(t)
    \/ \E o \in audit_logs :
          Budget(MaxReleaseCalls) /\ UpdateStatusRead(Owner, o, "cancelled")
    \/ \E w \in Warehouses, q \in 1..MaxQty, o \in OrderIds :
          Budget(MaxReleaseCalls) /\ ReserveStock(w, q, o)
    \/ \E w \in Warehouses, o \in OrderIds :
          Budget(MaxReleaseCalls) /\ ReleaseReservation(w, o)

SpecRelease == Init /\ [][NextRelease]_vars

\* The steps of payment service requests in progress.
PayProgress ==
    \/ \E c \in calls : ProcessWalletPaymentRead(c)
    \/ \E c \in calls : ProcessWalletPaymentDeduct(c)
    \/ \E c \in calls : ProcessPaymentStatus(c)
    \/ \E c \in calls : ProcessRefundCredit(c)
    \/ \E c \in calls : ProcessRefundMark(c)
    \/ \E c \in calls : ProcessRefundComplete(c)
    \/ \E c \in calls : ProcessRefundError(c)

\* The order has a payment in state st.
OrderPayment(o, st) ==
    \E p \in PaymentIds : payments[p].order_id = o /\ payments[p].status = st

\* The paid saga: an order is placed, paid from the customer's wallet and,
\* once it is paid, cancelled; refunds are asked for by the customer or not at all.  Requests
\* in progress and background tasks keep running; no request is bound to
\* arrive.
NextPaid ==
    \/ OrdersCreated < 1
          /\ CreateOrder(Owner, Retailer.id, <<"p1">>, <<1>>, <<"w1">>)
    \/ Progress
    \/ PayProgress
    \/ \E o \in audit_logs, amount \in 1..MaxAmount :
          Budget(MaxPayCalls) /\ ProcessPayment(Owner, o, amount, "wallet")
    \/ \E u \in {Owner, Retailer}, o \in audit_logs :
          /\ OrderPayment(o, "completed")
          /\ Budget(MaxPayCalls) /\ UpdateStatusRead(u, o, "cancelled")
    \/ \E p \in PaymentIds :
          /\ payments[p] # NoPayment
          /\ Budget(MaxPayCalls) /\ ProcessRefund(Owner, p, 0)

SpecPaid ==
    Init /\ [][NextPaid]_vars /\ WF_vars(Progress) /\ WF_vars(PayProgress)

\* The wallet ledger: the customer pays an order from the wallet while
\* the wallet users transfer funds to each other and to an unknown user.
NextWallet ==
    \/ OrdersCreated < 1
          /\ CreateOrder(Owner, Retailer.id, <<"p1">>, <<1>>, <<"w1">>)
    \/ \E c \in calls : CreateOrderItems(c)
    \/ \E c \in calls : ProcessWalletPaymentRead(c)
    \/ \E c \in calls : ProcessWalletPaymentDeduct(c)
    \/ \E c \in calls : ProcessPaymentStatus(c)
    \/ \E o \in audit_logs, amount \in 1..MaxAmount, method \in PaymentMethods :
          Budget(MaxPayCalls) /\ ProcessPayment(Owner, o, amount, method)
    \/ \E u \in WalletUsers, r \in WalletUsers \cup {"x1"}, amount \in 1..MaxAmount :
          Budget(MaxPayCalls) /\ TransferFunds(UserWithId(u), r, amount)

SpecWallet == Init /\ [][NextWallet]_vars

\* Refunds: the customer pays an order from the wallet or by mobile money,
\* and refunds of the payments are asked for, in full or of one unit, by the
\* customer, by another customer and by an admin.
NextRefund ==
    \/ OrdersCreated < 1
          /\ CreateOrder(Owner, Retailer.id, <<"p1">>, <<1>>, <<"w1">>)
    \/ \E c \in calls : CreateOrderItems(c)
    \/ PayProgress
    \/ \E o \in audit_logs, amount \in 1..MaxAmount, method \in PaymentMethods :
          Budget(MaxPayCalls) /\ ProcessPayment(Owner, o, amount, method)
    \/ \E u \in {"c1", "c2", "a1"}, p \in PaymentIds, amount \in 0..1 :
          Budget(MaxPayCalls) /\ ProcessRefund(UserWithId(u), p, amount)

SpecRefund == Init /\ [][NextRefund]_vars

\* Top-ups by a user of each KYC level: c1 (level 1), r1 (level 2) and d1
\* (level 0).
NextTopup ==
    \/ \E u \in {"c1", "r1", "d1"}, amount \in TopUpAmounts :
          Budget(MaxTopups) /\ TopupWallet(UserWithId(u), amount)
    \/ \E c \in calls : TopupInsert(c)

SpecTopup == Init /\ [][NextTopup]_vars

\* Order creation: orders with items of every product, active, inactive and
\* missing, are placed while reserve_stock calls take the stock of p1; the
\* insert of the order items may fail.
NextCreate ==
    \/ \E qs \in {<<1>>, <<MaxQty>>, <<1, MaxQty>>} :
          \E ps \in [DOMAIN qs -> ProductIds] :
             /\ OrdersCreated < 1
             /\ CreateOrder(Owner, Retailer.id, ps, qs, [i \in DOMAIN qs |-> "w1"])
    \/ \E c \in calls : CreateOrderItems(c)
    \/ \E c \in calls : CreateOrderError(c)
    \/ \E t \in tasks : ReserveTaskStep(t)
    \/ \E t \in tasks : ReserveTaskError(t)
    \/ \E w \in Warehouses, o \in OrderIds :
          Budget(MaxReserveCalls) /\ ReserveStock(w, MaxQty, o)

SpecCreate == Init /\ [][NextCreate]_vars

\* Notifications: one order, and status updates of it by its customer, by
\* its retailer and by another retailer, answered with success or with any
\* of the failures.
NextNotify ==
    \/ OrdersCreated < 1
          /\ CreateOrder(Owner, Retailer.id, <<"p1">>, <<1>>, <<"w1">>)
    \/ Progress
    \/ \E u \in {"c1", "r1", "r2"}, st \in {"confirmed", "processing", "cancelled"} :
          Budget(MaxStatusCalls) /\ UpdateStatusRead(UserWithId(u), 1, st)

SpecNotify == Init /\ [][NextNotify]_vars

\* Deliveries: one order is taken through its statuses by its retailer; once
\* it is ready for pickup it has a delivery, which the retailer assigns to
\* the driver and whose status the driver and the customer update.
DeliveryProgress ==
    \/ \E c \in calls : DeliveryStatusWrite(c)
    \/ \E c \in calls : DeliveryOrderWrite(c)
    \/ \E t \in tasks : NotifyDriverTask(t)
    \/ \E t \in tasks : NotifyDeliveryTask(t)
    \/ \E t \in tasks : DriverStatsRead(t)
    \/ \E t \in tasks : DriverStatsWrite(t)

NextDelivery ==
    \/ OrdersCreated < 1
          /\ CreateOrder(Owner, Retailer.id, <<"p1">>, <<1>>, <<"w1">>)
    \/ \E c \in calls : CreateOrderItems(c)
    \/ \E t \in tasks : ReserveTaskStep(t)
    \/ \E c \in calls : UpdateStatusWrite(c)
    \/ \E t \in tasks : NotifyTask(t)
    \/ \E o \in audit_logs,
          st \in {"confirmed", "processing", "ready_for_pickup", "out_for_delivery"} :
          /\ calls = {}
          /\ Budget(MaxDeliveryCalls) /\ UpdateStatusRead(Retailer, o, st)
    \/ \E o \in OrderIds : NewDelivery(o)
    \/ \E u \in {"r1", "c1"}, d \in DeliveryIds :
          Budget(MaxDeliveryCalls) /\ AssignDriver(UserWithId(u), d, "d1")
    \/ \E u \in {"d1", "c1"}, d \in DeliveryIds, st \in {"picked_up", "delivered"} :
          Budget(MaxDeliveryCalls) /\ DeliveryStatusRead(UserWithId(u), d, st)
    \/ DeliveryProgress

SpecDelivery == Init /\ [][NextDelivery]_vars

\* The steps of the saga that go well: every store call succeeds.
Healthy ==
    \/ \E c \in calls : CreateOrderItems(c)
    \/ \E t \in tasks : ReserveTaskStep(t)
    \/ \E c \in calls : UpdateStatusWrite(c)
    \/ \E t \in tasks : ReleaseTaskQuery(t)
    \/ \E t \in tasks : ReleaseTaskStep(t)
    \/ \E t \in tasks : NotifyTask(t)

\* Compensation: an order of two items is placed and, once its reservation
\* task has ended, confirmed or cancelled by its customer or its retailer.
\* A store call of a background task may fail; the steps that go well are
\* taken whenever they stay possible, so no failure lasts.
NextCompensate ==
    \/ OrdersCreated < 1
          /\ CreateOrder(Owner, Retailer.id, <<"p1", "p1">>, <<1, 1>>, <<"w1", "w1">>)
    \/ Progress
    \/ \E u \in {Owner, Retailer}, o \in audit_logs :
          /\ ReserveTasks = {}
          /\ Budget(MaxStatusCalls) /\ UpdateStatusRead(u, o, "cancelled")

SpecCompensate == Init /\ [][NextCompensate]_vars /\ WF_vars(Healthy)

\* The ids of the deposit rows of the top-ups made so far.
DepositIds == {r.id : r \in {x \in wallet_transactions : x.type = "deposit"}}

\* The wallet ledger as a whole: the customer pays an order from the wallet,
\* transfers funds to another user, asks for refunds and tops the wallet
\* up, and the provider's callbacks for the top-ups arrive, each one any
\* number of times and with either status.
NextLedger ==
    \/ OrdersCreated < 1
          /\ CreateOrder(Owner, Retailer.id, <<"p1">>, <<1>>, <<"w1">>)
    \/ \E c \in calls : CreateOrderItems(c)
    \/ PayProgress
    \/ \E o \in audit_logs :
          Budget(MaxPayCalls) /\ ProcessPayment(Owner, o, 1, "wallet")
    \/ Budget(MaxPayCalls) /\ TransferFunds(Owner, "c2", 1)
    \/ \E p \in PaymentIds :
          /\ payments[p] # NoPayment
          /\ Budget(MaxPayCalls) /\ ProcessRefund(Owner, p, 0)
    \/ Budget(MaxPayCalls) /\ TopupWallet(Owner, 15000)
    \/ \E c \in calls : TopupInsert(c)
    \/ \E ref \in DepositIds \cup {0}, st \in WebhookStatuses :
          Budget(MaxPayCalls) /\ MobileMoneyWebhook(ref, st)
    \/ \E c \in calls : WebhookRead(c)
    \/ \E c \in calls : WebhookCredit(c)
    \/ \E c \in calls : WebhookError(c)

SpecLedger == Init /\ [][NextLedger]_vars

\* Transfers: stock is moved between the warehouses while reserve_stock and
\* release_reservation calls change what is available of it.
NextTransfer ==
    \/ \E from \in Warehouses, to \in Warehouses, q \in 1..MaxQty :
          Budget(MaxTransferCalls) /\ TransferStock(from, to, q)
    \/ \E w \in Warehouses, q \in 1..MaxQty, o \in OrderIds :
          Budget(MaxTransferCalls) /\ ReserveStock(w, q, o)
    \/ \E w \in Warehouses, o \in OrderIds :
          Budget(MaxTransferCalls) /\ ReleaseReservation(w, o)

SpecTransfer == Init /\ [][NextTransfer]_vars

\* The stock ledger and its alerts: stock operations and transfers change the
\* quantities of the rows, the alert evaluations they schedule run in the
\* background, and alerts are acknowledged.
NextStock ==
    \/ \E op \in StockOps, w \in Warehouses :
          \E ch \in StockChanges(op) : Budget(MaxStockCalls) /\ StockRead(op, w, ch)
    \/ \E c \in calls : StockWrite(c)
    \/ \E t \in tasks : AlertTaskCheck(t)
    \/ \E t \in tasks : AlertTaskInsert(t)
    \/ \E a \in 1..MaxStockCalls : Budget(MaxStockCalls) /\ AcknowledgeAlert(a)
    \/ \E from \in Warehouses, to \in Warehouses, q \in 1..MaxQty :
          Budget(MaxStockCalls) /\ TransferStock(from, to, q)

SpecStock == Init /\ [][NextStock]_vars

\* The stock operations alone: concurrent update_inventory, adjust_stock and
\* add_stock requests on the rows.
NextAdjust ==
    \/ \E op \in StockOps, w \in Warehouses :
          \E ch \in StockChanges(op) : Budget(MaxStockCalls) /\ StockRead(op, w, ch)
    \/ \E c \in calls : StockWrite(c)

SpecAdjust == Init /\ [][NextAdjust]_vars

\* The catalog: an order of p1 is placed and taken through its statuses
\* while the price of the product is updated.
NextCatalog ==
    \/ \E qs \in {<<1>>, <<1, MaxQty>>} :
          /\ OrdersCreated < 1
          /\ CreateOrder(Owner, Retailer.id, OfP1(qs), qs, [i \in DOMAIN qs |-> "w1"])
    \/ Healthy
    \/ \E u \in {Owner, Retailer}, o \in OrderIds,
          st \in {"confirmed", "processing", "cancelled"} :
          /\ calls = {}
          /\ Budget(MaxCatalogCalls) /\ UpdateStatusRead(u, o, st)
    \/ \E u \in {"r1", "r2", "c1"}, pr \in NewPrices :
          Budget(MaxCatalogCalls) /\ UpdateProduct(UserWithId(u), "p1", pr)

SpecCatalog == Init /\ [][NextCatalog]_vars

\* The audit trail: the customer pays an order from the wallet, transfers
\* funds, tops the wallet up and asks for refunds; a store call of the
\* refund may fail.
NextAudit ==
    \/ OrdersCreated < 1
          /\ CreateOrder(Owner, Retailer.id, <<"p1">>, <<1>>, <<"w1">>)
    \/ \E c \in calls : CreateOrderItems(c)
    \/ PayProgress
    \/ \E o \in audit_logs, amount \in {1, InitBalance + 1} :
          Budget(MaxPayCalls) /\ ProcessPayment(Owner, o, amount, "wallet")
    \/ \E amount \in {1, InitBalance + 1} :
          Budget(MaxPayCalls) /\ TransferFunds(Owner, "c2", amount)
    \/ \E p \in PaymentIds :
          /\ payments[p] # NoPayment
          /\ Budget(MaxPayCalls) /\ ProcessRefund(Owner, p, 0)
    \/ Budget(MaxPayCalls) /\ TopupWallet(Owner, 15000)
    \/ \E c \in calls : TopupInsert(c)

SpecAudit == Init /\ [][NextAudit]_vars

\* First accesses: users with and without a wallet ask for their balance,
\* concurrently.
NextBalance ==
    \/ \E u \in Users : Budget(MaxBalanceCalls) /\ GetWalletBalance(u)
    \/ \E c \in calls : WalletInsert(c)
    \/ \E c \in calls : WalletInsertError(c)

SpecBalance == Init /\ [][NextBalance]_vars

\* Racing status updates: an order is placed and reserved, and while it is
\* pending its customer and its retailer ask to cancel and to confirm it;
\* no request arrives once the order has left pending.
NextRace ==
    \/ \E qs \in {<<1>>, <<1, 1>>} :
          /\ OrdersCreated < 1
          /\ CreateOrder(Owner, Retailer.id, OfP1(qs), qs, [i \in DOMAIN qs |-> "w1"])
    \/ Healthy
    \/ \E u \in {Owner, Retailer}, o \in audit_logs, st \in {"confirmed", "cancelled"} :
          /\ ReserveTasks = {}
          /\ orders[o].status = "pending"
          /\ Budget(MaxStatusCalls) /\ UpdateStatusRead(u, o, st)

SpecRace == Init /\ [][NextRace]_vars

\* Events: order and delivery events about order 1 of customer c1 reach the
\* notification service, any of them more than once.
NextEvents ==
    \/ \E e \in {"order_placed", "order_confirmed", "order_refunded"} :
          Budget(MaxEvents) /\ HandleOrderEvent(e, 1, "c1")
    \/ \E e \in {"delivery_assigned", "delivery_completed"} :
          Budget(MaxEvents) /\ HandleDeliveryEvent(e, 1, "c1")
    \/ \E t \in tasks : SendNotificationInternal(t)

SpecEvents == Init /\ [][NextEvents]_vars

\* Sockets: two users open and close websockets while order events about
\* them are handled.
NextSockets ==
    \/ \E u \in {"c1", "c2"} : Budget(MaxSockets) /\ Connect(u)
    \/ \E socket \in live_sockets : Disconnect(socket)
    \/ \E u \in {"c1", "c2"} :
          Budget(MaxSockets) /\ HandleOrderEvent("order_confirmed", 1, u)
    \/ \E t \in tasks : SendNotificationInternal(t)

SpecSockets == Init /\ [][NextSockets]_vars

\* The warehouse of an order item: reserve_stock calls take stock of either
\* row of p1, and orders of p1 are placed with either row as the first the
\* store returns.  A request starts only when no request is in progress and
\* no background task is left, so nothing runs between an order's
\* availability check and its reservations.
NextAllocate ==
    \/ \E qs \in ItemQuantities :
          \E ws \in [DOMAIN qs -> Warehouses] :
             /\ calls = {} /\ tasks = {}
             /\ CreateOrder(Owner, Retailer.id, OfP1(qs), qs, ws)
    \/ \E c \in calls : CreateOrderItems(c)
    \/ \E t \in tasks : ReserveTaskStep(t)
    \/ \E w \in Warehouses, q \in 1..MaxQty, o \in OrderIds :
          /\ calls = {} /\ tasks = {}
          /\ Budget(MaxAllocCalls) /\ ReserveStock(w, q, o)

SpecAllocate == Init /\ [][NextAllocate]_vars

(***************************************************************************)
(* Properties.                                                             *)
(***************************************************************************)
\* The quantity the items of an order ask of row w.
ItemQuantityOn(items, w) ==
    SumOver(DOMAIN items,
            [i \in DOMAIN items |->
                IF items[i].warehouse_id = w THEN items[i].quantity ELSE 0])

InTable(from, to) ==
    from \in DOMAIN valid_transitions /\ to \in valid_transitions[from]

\* The update of the order row by call c, answered with success.
Written(c) ==
    /\ c.op = "update_order_status"
    /\ c \notin calls'
    /\ response'.op = "update_order_status"
    /\ response'.id = c.id
    /\ response'.code = 200

\* C1: every inventory row has 0 <= reserved_quantity <= quantity, in every
\* reachable state.
C1_ReservedWithinOnHand ==
    \A w \in Warehouses :
        /\ 0 <= inventory[w].reserved_quantity
        /\ inventory[w].reserved_quantity <= inventory[w].quantity

\* C2: the reserve calls that succeed on a row never total more than the
\* quantity the row had available at the start, and reserve_stock rejects a
\* call only when the row's available quantity is below the call's quantity.
C2_NoOversell ==
    /\ \A w \in Warehouses : granted[w] <= InitStock
    /\ (response.op = "reserve_stock" /\ response.code = 400)
          => response.available < response.quantity

\* C2's case: calls asking for more than the row has were made, the row's
\* stock is granted in full and a further reserve_stock was rejected.
C2_Witness ==
    /\ response.op = "reserve_stock"
    /\ response.code = 400
    /\ granted[response.warehouse_id] = InitStock
    /\ inventory[response.warehouse_id].reserved_quantity = InitStock

\* C3: once create_order has answered, an order that is not cancelled has an
\* active reservation under its id for every one of its items.
C3_OrderBackedByReservations ==
    \A o \in audit_logs :
        orders[o].status # "cancelled" =>
            \A w \in Warehouses :
                reservations[o][w] >= ItemQuantityOn(order_items[o], w)

\* C4: when the reservation of an item of an order was rejected, then, once
\* the reservation step is over, the order is not persisted and nothing is
\* reserved under its id.
C4_FailedReservationFailsOrder ==
    \A o \in rpc_rejected :
        (\A t \in ReserveTasks : t.order_id # o) =>
            /\ orders[o] = NoOrder
            /\ \A w \in Warehouses : reservations[o][w] = 0

\* C5: an update_status call that is not refused for lack of permission
\* succeeds exactly for the pairs (status read, new status) of the transition
\* table, and is answered InvalidTransition for every other pair.
C5_OnlyTableTransitions ==
    (response.op = "update_order_status" /\ response.code \in {200, 400}) =>
        /\ response.code = 200
              <=> InTable(response.read_status, response.status)
        /\ response.code = 400 => response.detail = "InvalidTransition"

\* C6: no update_status call succeeds on an order it found delivered or
\* cancelled.
C6_TerminalIsFinal ==
    (response.op = "update_order_status" /\ response.code = 200) =>
        response.read_status \notin {"delivered", "cancelled"}

\* C7: the check of the current status and the write of the new one are one
\* atomic step: a call writes only while the order has the status it checked.
C7_CheckAndWriteAtomic ==
    [][\A c \in calls :
          Written(c) => orders[c.order_id].status = c.read_status]_vars

\* C8: a customer changes an order's status only to cancelled and only while
\* the order is pending.
C8_CustomerOnlyCancelsPending ==
    [][\A c \in calls :
          (Written(c) /\ c.user.role = "customer") =>
              /\ c.status = "cancelled"
              /\ orders[c.order_id].status = "pending"]_vars

\* An actor without ownership or permission on the order.
LacksPermission(user, order) ==
    \/ user.role = "retailer" /\ user.id # order.retailer_id
    \/ user.role = "customer" /\ user.id # order.customer_id
    \/ user.role \notin {"retailer", "admin", "customer"}

\* C9: update_status by an actor without ownership or permission on the
\* order is answered Forbidden.
C9_ForbiddenWithoutPermission ==
    (/\ response.op = "update_order_status"
     /\ response.code # 404
     /\ LacksPermission(response.user, orders[response.order_id]))
        => response.code = 403

\* C10: once the cancellation compensation of an order has run, no
\* reservation tied to the order's id is left.
C10_CancelReleasesReservations ==
    \A o \in OrderIds :
        <<"Inventory released", o>> \in task_log =>
            \A w \in Warehouses : reservations[o][w] = 0

\* A step that releases the reservation of reference o on row w: the
\* release_reservation endpoint, or an item of the cancellation compensation.
IsRelease(o, w) ==
    \/ ReleaseReservation(w, o)
    \/ \E t \in ReleaseTasks :
          /\ t.order_id = o
          /\ t.idx > 0
          /\ t.items[t.idx].warehouse_id = w
          /\ ReleaseTaskStep(t)

RefundCredited(o) ==
    \E r \in wallet_transactions :
        /\ r.type = "refund"
        /\ refunds[r.reference].original_payment_id \in PaymentIds
        /\ payments[refunds[r.reference].original_payment_id].order_id = o

\* C12: an order that is cancelled while its payment is completed is
\* eventually refunded: the payer's wallet is credited and the payment is
\* marked refunded.
C12_CancelledPaidOrderRefunded ==
    \A o \in OrderIds :
        (orders[o].status = "cancelled" /\ OrderPayment(o, "completed"))
            ~> (OrderPayment(o, "refunded") /\ RefundCredited(o))

\* A step of transfer_funds, answered with response'.
TransferStep ==
    ncalls' = ncalls + 1 /\ response'.op = "transfer_funds" /\ response'.id = ncalls'

\* C13: a transfer either debits the sender and credits the recipient by the
\* same amount or changes no balance, the sum of the two balances is the
\* same before and after, and in no state is a transfer's debit recorded
\* without its credit or its credit without its debit.
C13_TransferAllOrNothing ==
    /\ [](\A r \in wallet_transactions :
             r.type = "transfer" =>
                 \E q \in wallet_transactions :
                     /\ q.type = "transfer" /\ q.id = r.id
                     /\ q.user_id = r.reference /\ q.reference = r.user_id
                     /\ q.amount = 0 - r.amount)
    /\ [][TransferStep =>
             LET t == response' IN
             IF t.code = 200
             THEN /\ wallets'[t.sender_id] = wallets[t.sender_id] - t.amount
                  /\ wallets'[t.recipient_id] = wallets[t.recipient_id] + t.amount
                  /\ wallets'[t.sender_id] + wallets'[t.recipient_id]
                        = wallets[t.sender_id] + wallets[t.recipient_id]
                  /\ \A u \in WalletUsers \ {t.sender_id, t.recipient_id} :
                        wallets'[u] = wallets[u]
             ELSE wallets' = wallets]_vars

\* C13's case: a transfer has moved funds from the sender's wallet to the
\* recipient's.
C13_Witness ==
    /\ response.op = "transfer_funds"
    /\ response.code = 200
    /\ wallets[response.sender_id] < InitBalance
    /\ wallets[response.recipient_id] > InitBalance

\* The deduct_wallet_balance call of the wallet payment c.
DebitStep(c) ==
    c.op = "process_payment" /\ c.pc = "deduct" /\ c \notin calls'

RefundRefusedStep ==
    /\ ncalls' = ncalls + 1
    /\ response'.op = "process_refund"
    /\ response'.id = ncalls'

\* The credit_wallet_balance call of the refund c.
RefundCreditStep(c) ==
    c.op = "process_refund" /\ c.pc = "credit" /\ c \notin calls'
        /\ response' = response

\* C15: a refund goes on only for a payment it found completed; a refund of a
\* payment in any other state is refused and changes neither a wallet
\* balance nor the payment; a refund that goes on credits the wallet of the
\* payment's user, and when it has succeeded the payment is refunded.
C15_RefundRequiresCompleted ==
    /\ [](/\ \A c \in calls :
               c.op = "process_refund" => c.read_status = "completed"
          /\ (response.op = "process_refund" /\ response.code \in {200, 500})
                => response.read_status = "completed"
          /\ (response.op = "process_refund" /\ response.code = 200)
                => payments[response.payment_id].status = "refunded")
    /\ [][/\ RefundRefusedStep => (wallets' = wallets /\ payments' = payments)
          /\ \A c \in calls :
                RefundCreditStep(c) =>
                    /\ c.user_id = payments[c.payment_id].user_id
                    /\ wallets'[c.user_id] = wallets[c.user_id] + c.amount]_vars

\* C15's case: a payment was refunded (its payer's wallet credited, the
\* payment marked refunded) and a further refund of it, now in state
\* refunded, was refused.
C15_Witness ==
    /\ response.op = "process_refund"
    /\ response.code = 400
    /\ response.read_status = "refunded"
    /\ payments[response.payment_id].status = "refunded"
    /\ \E r \in wallet_transactions :
          /\ r.type = "refund"
          /\ refunds[r.reference].original_payment_id = response.payment_id
          /\ refunds[r.reference].status = "completed"

\* The credits made to a wallet as refunds of payment p.
RefundCredits(p) ==
    {r \in wallet_transactions :
        r.type = "refund" /\ refunds[r.reference].original_payment_id = p}

\* C16: a payment is refunded at most once: in every state the payer's
\* wallet was credited for at most one refund of the payment, and the
\* credits of its refunds total at most the payment's amount.
C16_RefundedAtMostOnce ==
    \A p \in PaymentIds :
        /\ Cardinality(RefundCredits(p)) <= 1
        /\ SumAmounts(RefundCredits(p)) <= payments[p].amount

\* The first step of topup_wallet, answered with response' if refused.
TopupRefusedStep ==
    /\ ncalls' = ncalls + 1
    /\ response'.op = "topup_wallet"
    /\ response'.id = ncalls'

ItemValid(item) ==
    /\ item.product_id \in DOMAIN products
    /\ products[item.product_id].status = "active"
    /\ total_available >= item.quantity

\* C18: create_order goes on to its first insert only if every item passes
\* validation; if an item fails it, the request is answered with an error
\* and no order row, order item row, reservation or audit row is created,
\* and no background task is scheduled.
C18_ValidateBeforePersist ==
    [][/\ \A c \in calls' \ calls :
             c.op = "create_order" =>
                 \A i \in DOMAIN c.items : ItemValid(c.items[i])
       /\ (response' # response /\ response'.op = "create_order"
              /\ response'.code = 400) =>
             /\ \E i \in DOMAIN response'.items : ~ItemValid(response'.items[i])
             /\ UNCHANGED <<orders, order_items, inventory, reservations,
                            audit_logs, tasks, calls>>]_vars

\* C18's case: an order whose first item is valid and whose second item is
\* of a product that is inactive or missing was refused, and there is no
\* order row, item row, reservation or audit row.
C18_Witness ==
    /\ response.op = "create_order"
    /\ response.code = 400
    /\ Len(response.items) = 2
    /\ ItemValid(response.items[1])
    /\ response.items[2].product_id # "p1"
    /\ \A o \in OrderIds :
          /\ orders[o] = NoOrder
          /\ order_items[o] = <<>>
          /\ \A w \in Warehouses : reservations[o][w] = 0
    /\ audit_logs = {}

\* C19: once create_order is over for an order, be it with a response or
\* with a failure, the order row has all of its order item rows.
C19_OrderWithItemsAtomic ==
    \A o \in OrderIds :
        (orders[o] # NoOrder
           /\ \A c \in calls : ~(c.op = "create_order" /\ c.order_id = o))
            => order_items[o] # <<>>

\* The notification events emitted by the step: the send_order_notification
\* tasks it schedules.
Emitted == {t \in tasks' \ tasks : t.kind = "notify"}

\* The step answers an update_status request.
StatusAnswered ==
    response' # response /\ response'.op = "update_order_status"

\* C20: the step that answers an update_status request with success emits
\* exactly one notification event, for the order and the new status of the
\* request; a step that answers one with a failure emits none and creates no
\* notification; no other step emits one; and no event is delivered twice.
C20_OneNotificationPerTransition ==
    /\ [][/\ (StatusAnswered /\ response'.code = 200) =>
                /\ Cardinality(Emitted) = 1
                /\ \A t \in Emitted :
                      /\ t.id = response'.id
                      /\ t.order_id = response'.order_id
                      /\ t.status = response'.status
          /\ (StatusAnswered /\ response'.code # 200) =>
                (Emitted = {} /\ notifications' = notifications)
          /\ Emitted # {} => (StatusAnswered /\ response'.code = 200)]_vars
    /\ [](\A x \in notifications, y \in notifications :
             (x.id = y.id) => (x = y))

\* C20's case: an update was answered with success and the notification of
\* its new status was delivered.
C20_Witness ==
    /\ response.op = "update_order_status"
    /\ response.code = 200
    /\ \E x \in notifications :
          /\ x.id = response.id
          /\ x.order_id = response.order_id
          /\ x.status = response.status

\* The step is a failure of notification dispatch: a send_order_notification
\* task ends without a notification row.
DispatchFailure ==
    /\ \E t \in tasks \ tasks' : t.kind = "notify"
    /\ notifications' = notifications

\* C21: a failure of notification dispatch changes no order row (status and
\* timestamps), no inventory row and no reservation, and the response the
\* update was answered with stays as it was sent.
C21_DispatchFailureChangesNothing ==
    [][DispatchFailure =>
          /\ orders' = orders
          /\ order_items' = order_items
          /\ inventory' = inventory
          /\ reservations' = reservations
          /\ response' = response]_vars

\* C21's case: the dispatch for a confirmed order failed, and the order is
\* confirmed with its timestamp and the update answered with success.
C21_Witness ==
    /\ <<"Failed to send notification", 1>> \in task_log
    /\ notifications = {}
    /\ orders[1].status = "confirmed"
    /\ "confirmed_at" \in orders[1].stamps
    /\ response.op = "update_order_status"
    /\ response.code = 200

\* The sum over the item rows of an order of unit_price * quantity.
ItemsSubtotal(o) ==
    SumOver(DOMAIN order_items[o],
            [i \in DOMAIN order_items[o] |->
                order_items[o][i].unit_price * order_items[o][i].quantity])

\* C22: for every order whose item rows are written, subtotal is the sum
\* over the items of unit_price * quantity, each unit_price being the price
\* of the item's product; tax_amount is 16% of subtotal, shipping_amount is
\* 25 and total_amount is the sum of the three.  An order of one item of
\* unit_price 100 and quantity 2 has 200, 32, 25 and 257.
C22_OrderTotals ==
    \A o \in OrderIds :
        order_items[o] # <<>> =>
            /\ \A i \in DOMAIN order_items[o] :
                  /\ order_items[o][i].unit_price = PriceOf(order_items[o][i].product_id)
                  /\ order_items[o][i].total_price =
                        order_items[o][i].unit_price * order_items[o][i].quantity
            /\ orders[o].subtotal = ItemsSubtotal(o)
            /\ 100 * orders[o].tax_amount = 16 * orders[o].subtotal
            /\ orders[o].shipping_amount = 25 * Unit
            /\ orders[o].total_amount =
                  orders[o].subtotal + orders[o].tax_amount + orders[o].shipping_amount
            /\ (/\ Len(order_items[o]) = 1
                /\ order_items[o][1].unit_price = 100 * Unit
                /\ order_items[o][1].quantity = 2)
               => /\ orders[o].subtotal = 200 * Unit
                  /\ orders[o].tax_amount = 32 * Unit
                  /\ orders[o].total_amount = 257 * Unit

\* C22's case: an order of two items, of quantity 1 and of quantity MaxQty,
\* is persisted with its item rows and a subtotal that counts both.
C22_Witness ==
    \E o \in OrderIds :
        /\ Len(order_items[o]) = 2
        /\ order_items[o][1].quantity # order_items[o][2].quantity
        /\ orders[o].subtotal = ItemsSubtotal(o)
        /\ orders[o].subtotal > order_items[o][1].total_price
        /\ orders[o].total_amount > orders[o].subtotal + orders[o].shipping_amount

\* C23: every change of the status of a persisted order is an edge of the
\* transition table from the status the order had.
C23_StatusChangesAreTableEdges ==
    [][\A o \in OrderIds :
          (orders[o] # NoOrder /\ orders'[o].status # orders[o].status)
             => InTable(orders[o].status, orders'[o].status)]_vars

\* C24: the reservations of every cancelled order are released in the end,
\* whether or not a store call of the compensation failed on the way.
C24_CompensationRetried ==
    \A o \in OrderIds :
        (orders[o].status = "cancelled")
           ~> (\A w \in Warehouses : reservations[o][w] = 0)

\* What a wallet transaction adds to its user's balance: a payment is a
\* debit, a transfer row carries its sign, every other row is a credit.
NetAmount(r) == IF r.type = "payment" THEN 0 - r.amount ELSE r.amount

RECURSIVE SumNet(_)
SumNet(rows) ==
    IF rows = {} THEN 0
    ELSE LET r == CHOOSE x \in rows : TRUE IN NetAmount(r) + SumNet(rows \ {r})

\* C25: the balance of every wallet is its opening balance plus the net sum
\* of the user's completed wallet transactions.
C25_BalanceReconciles ==
    \A u \in WalletUsers :
        wallets[u] = InitBalance
                     + SumNet({r \in wallet_transactions :
                                  r.user_id = u /\ r.status = "completed"})

\* The step serves a transfer_stock request.
StockTransferStep ==
    /\ ncalls' = ncalls + 1
    /\ response'.op = "transfer_stock"
    /\ response'.id = ncalls'

\* The quantity on hand of the product over all warehouses.
total_on_hand == SumOver(Warehouses, [w \in Warehouses |-> inventory[w].quantity])

\* C26: a transfer between two different warehouses whose source has the
\* quantity available takes it from the source's quantity on hand and adds it
\* to the destination's; any other transfer fails and changes no inventory
\* row; no transfer changes a reserved quantity or the total on hand.
C26_TransferMovesOrFails ==
    [][StockTransferStep =>
          LET from == response'.from_warehouse
              to   == response'.to_warehouse
              q    == response'.quantity
          IN  /\ IF from # to /\ available_quantity(from) >= q
                 THEN /\ response'.code = 200
                      /\ inventory'[from].quantity = inventory[from].quantity - q
                      /\ inventory'[to].quantity = inventory[to].quantity + q
                      /\ \A w \in Warehouses \ {from, to} : inventory'[w] = inventory[w]
                 ELSE /\ response'.code = 400
                      /\ inventory' = inventory
              /\ \A w \in Warehouses :
                    inventory'[w].reserved_quantity = inventory[w].reserved_quantity
              /\ reservations' = reservations
              /\ total_on_hand' = total_on_hand]_vars

\* C26's case: a transfer was refused although the source has the quantity on
\* hand, because a reservation holds a part of it.
C26_Witness ==
    /\ response.op = "transfer_stock"
    /\ response.code = 400
    /\ response.from_warehouse # response.to_warehouse
    /\ inventory[response.from_warehouse].quantity >= response.quantity
    /\ available_quantity(response.from_warehouse) < response.quantity
    /\ total_on_hand = 2 * InitStock

\* C27: an adjustment (adjust_stock, update_inventory) that would make the
\* quantity on hand negative is refused, and a refusal changes no inventory
\* row and appends no stock movement; a successful one changes the quantity
\* on hand by exactly its delta and appends one stock movement whose
\* quantity_before and quantity_after are the quantity on hand before and
\* after the change.
AdjustOps == {"adjust_stock", "update_inventory"}

AdjustRefused ==
    /\ ncalls' = ncalls + 1
    /\ response'.op \in AdjustOps
    /\ response'.id = ncalls'
    /\ response'.code = 400

AdjustDone(c) ==
    /\ c \in calls \ calls'
    /\ c.op \in AdjustOps
    /\ response'.op = c.op
    /\ response'.id = c.id
    /\ response'.code = 200

C27_AdjustChecksAndRecords ==
    [][/\ AdjustRefused =>
           /\ response'.quantity_after < 0
           /\ inventory' = inventory
           /\ stock_movements' = stock_movements
       /\ \A c \in calls :
             AdjustDone(c) =>
                LET w       == c.warehouse_id
                    delta   == c.quantity_after - c.quantity_before
                    on_hand == inventory[w].quantity
                IN  /\ on_hand + delta >= 0
                    /\ inventory'[w].quantity = on_hand + delta
                    /\ \E mv \in stock_movements' :
                          /\ stock_movements' \ stock_movements = {mv}
                          /\ mv.warehouse_id = w
                          /\ mv.quantity_before = on_hand
                          /\ mv.quantity_after = inventory'[w].quantity]_vars

\* C28: the stock operations lose no update: once the operations on a row
\* have all answered, the quantity on hand of the row is its initial quantity
\* plus the deltas of all the operations that succeeded on it, under every
\* interleaving.
MovementsOf(w) == {mv \in stock_movements : mv.warehouse_id = w}

RECURSIVE SumDeltas(_)
SumDeltas(rows) ==
    IF rows = {} THEN 0
    ELSE LET mv == CHOOSE x \in rows : TRUE
         IN  (mv.quantity_after - mv.quantity_before) + SumDeltas(rows \ {mv})

C28_NoLostUpdate ==
    \A w \in Warehouses :
       (\A c \in calls : c.warehouse_id # w) =>
          inventory[w].quantity = InitStock + SumDeltas(MovementsOf(w))

\* C29: in every reachable state there is at most one unacknowledged stock
\* alert of each row and alert type, also when two alert evaluations of the
\* row run concurrently.
Unacknowledged(w, alert_type) ==
    {a \in stock_alerts : /\ a.warehouse_id = w
                          /\ a.alert_type = alert_type
                          /\ ~a.is_acknowledged}

C29_OneUnacknowledgedAlert ==
    \A w \in Warehouses :
       \A alert_type \in {"out_of_stock", "low_stock", "overstock"} :
          Cardinality(Unacknowledged(w, alert_type)) <= 1

\* C30: after every inventory mutation that succeeds, the alert evaluation
\* of each row it changed is scheduled with the row's new quantity on hand;
\* and an alert that an evaluation raises is out_of_stock for quantity 0,
\* else low_stock for a quantity up to the configured threshold, else
\* overstock for a quantity above the configured maximum.
EvaluationScheduled(w) ==
    \E t \in tasks' \ tasks :
       /\ t.kind = "alerts"
       /\ t.warehouse_id = w
       /\ t.quantity = inventory'[w].quantity

StockOpDone(c) ==
    /\ c \in calls \ calls'
    /\ c.op \in StockOps
    /\ response'.op = c.op
    /\ response'.id = c.id
    /\ response'.code = 200

TransferDone ==
    /\ ncalls' = ncalls + 1
    /\ response'.op = "transfer_stock"
    /\ response'.id = ncalls'
    /\ response'.code = 200

C30_MutationsEvaluateAlerts ==
    [][/\ \A c \in calls : StockOpDone(c) => EvaluationScheduled(c.warehouse_id)
       /\ TransferDone =>
             /\ EvaluationScheduled(response'.from_warehouse)
             /\ EvaluationScheduled(response'.to_warehouse)
       /\ \A a \in stock_alerts' \ stock_alerts :
             ~a.is_acknowledged =>
                LET config == ConfigOf(a.warehouse_id)
                    q      == a.current_quantity
                IN  /\ a.alert_type = "out_of_stock" <=> q = 0
                    /\ a.alert_type = "low_stock" <=>
                          (q # 0 /\ q <= config.low_stock_threshold)
                    /\ a.alert_type = "overstock" <=>
                          /\ q # 0
                          /\ q > config.low_stock_threshold
                          /\ q > config.max_stock_level]_vars

\* C31: order items are immutable once persisted: no step, a change of the
\* product's price and a status transition of the order included, changes
\* the unit_price, quantity or total_price of an item row that exists, or
\* the subtotal, tax_amount, shipping_amount or total_amount of an order row
\* that exists.
C31_OrderItemsImmutable ==
    [][\A o \in OrderIds :
          /\ order_items[o] # <<>> => order_items'[o] = order_items[o]
          /\ orders[o] # NoOrder =>
                /\ orders'[o].subtotal = orders[o].subtotal
                /\ orders'[o].tax_amount = orders[o].tax_amount
                /\ orders'[o].shipping_amount = orders[o].shipping_amount
                /\ orders'[o].total_amount = orders[o].total_amount]_vars

\* C31 witness: a confirmed order whose item still carries the price of
\* the time it was placed after the product's price was raised.
C31_Witness ==
    \E o \in OrderIds :
       /\ orders[o].status = "confirmed"
       /\ order_items[o] # <<>>
       /\ order_items[o][1].unit_price = 100 * Unit
       /\ product_price["p1"] = 150 * Unit
       /\ orders[o].subtotal = ItemsSubtotal(o)

\* C32: every financial operation (process payment, top-up, wallet transfer,
\* refund) that got past its validation writes an audit record, whether it
\* succeeds or fails: the step that answers such an attempt, with success,
\* with a failed payment, a failed transfer or a storage error of a refund,
\* leaves an audit record of the attempt.
PastValidation(r) ==
    \/ r.op = "process_payment" /\ r.code = 200
    \/ r.op = "topup_wallet" /\ r.code = 200
    \/ r.op = "transfer_funds" /\ (r.code = 200 \/ r.detail = "Transfer failed")
    \/ r.op = "process_refund" /\ r.code \in {200, 500}

C32_AttemptsAreAudited ==
    [][(response' # response /\ PastValidation(response')) =>
          \E a \in payment_audit' : a.id = response'.id]_vars

\* C33: in every reachable state every user has at most one wallet, and a
\* wallet created on first access has balance 0, also when two first
\* accesses of the user run concurrently.
C33_OneWalletPerUser ==
    \A u \in Users :
       /\ Cardinality(WalletsOf(u.id)) <= 1
       /\ \A w \in created_wallets : w.balance = 0

\* C34: the notification consumers are idempotent by reference id: however
\* often an event of an order or a delivery is delivered, there is at most
\* one notification record of that event.
EventRecords(ref, event) ==
    {x \in notifications :
        x.category = "event" /\ x.order_id = ref /\ x.status = event}

C34_OneRecordPerEvent ==
    \A ref \in OrderIds \cup DeliveryIds :
       \A event \in OrderEvents \cup DeliveryEvents :
          Cardinality(EventRecords(ref, event)) <= 1

\* C40: after any interleaving of connects and disconnects, a user who has
\* a live websocket has an entry in active_connections that is one of the
\* user's live sockets; a second connection stays registered when the first
\* one disconnects.
LiveSocketsOf(user_id) == {socket.id : socket \in {x \in live_sockets : x.user_id = user_id}}

C40_LiveUserIsRegistered ==
    \A u \in UserIds :
       LiveSocketsOf(u) # {} => active_connections[u] \in LiveSocketsOf(u)

\* C35: in every reachable state, concurrent status updates of one order
\* included, the cancellation compensation has released the reservations
\* of an order only if the order's persisted status is cancelled.
CompensationReleased(o) ==
    /\ <<"Inventory released", o>> \in task_log
    /\ order_items[o] # <<>>
    /\ \A w \in Warehouses : reservations[o][w] = 0

C35_ReleasedOnlyIfCancelled ==
    \A o \in OrderIds : CompensationReleased(o) => orders[o].status = "cancelled"

\* C36: an order is paid at most once: in every reachable state at most one
\* payment of the order is completed and the payer's wallet was debited for
\* the order at most once, and no process_payment request for an order that
\* has a completed payment gets past the "Order already paid" check.
CompletedPayments(o) ==
    {p \in PaymentIds : payments[p].order_id = o /\ payments[p].status = "completed"}

DebitsFor(o) ==
    {x \in wallet_transactions :
        /\ x.type = "payment"
        /\ x.reference \in PaymentIds
        /\ payments[x.reference].order_id = o}

\* A process_payment request for order o gets past the checks of the order.
PaymentAccepted(o) ==
    \E c \in calls' \ calls : c.op = "process_payment" /\ c.order_id = o

C36_PaidAtMostOnce ==
    /\ [](\A o \in OrderIds :
            /\ Cardinality(CompletedPayments(o)) <= 1
            /\ Cardinality(DebitsFor(o)) <= 1)
    /\ [][\A o \in OrderIds :
            CompletedPayments(o) # {} => ~PaymentAccepted(o)]_vars

\* C37: a deposit is credited at most once: however often the webhook is
\* delivered with status completed for the reference of a deposit, the
\* wallet is credited with the deposit's amount once.
CreditsOf(reference) ==
    {x \in wallet_transactions :
        x.type = "mobile_money_deposit" /\ x.reference = reference}

C37_DepositCreditedOnce ==
    \A reference \in DepositIds : Cardinality(CreditsOf(reference)) <= 1

\* C38: when the availability check of create_order has passed for an item
\* and nothing else runs in between, the reservation made for the item finds
\* at least the item's quantity available on the warehouse row it names.
C38_ReservationFindsStock ==
    [][\A t \in ReserveTasks :
          t \notin tasks' =>
             available_quantity(t.items[t.idx].warehouse_id)
                >= t.items[t.idx].quantity]_vars

\* C39: in every state, concurrent top-up requests of one user included, the
\* deposits of the day that topup_wallet accepted for a user sum to no more
\* than the user's limit, 50,000 below KYC level 2 and 100,000 from there on.
C39_DepositsWithinLimit ==
    \A u \in UserIds :
        get_daily_transaction_total(u, "deposit")
           <= (IF kyc_level[u] < 2 THEN DailyLimitBasic ELSE DailyLimitFull)

====
